---- MODULE Spec2Model ----
(***************************************************************************)
(* A model of the annotation editor (components/PDFEditor.tsx) and of the  *)
(* Edit & Merge flow that hosts it (app/setlists/[id]/page.tsx).           *)
(*                                                                         *)
(* Every React state cell is a variable.  A handler runs against the       *)
(* values of the last render and its state updates are applied together,   *)
(* so one handler is one action.  history is a TLA+ sequence (1-based):    *)
(* the snapshot under the cursor is history[historyIndex + 1].             *)
(***************************************************************************)
EXTENDS Integers, Sequences, FiniteSets, TLC

\* ------------------------------------------------------------- bounds
\* The longest history a session of the editor specification may build.
MaxHistory == 3
\* The longest pen stroke (in points) a drag may accumulate.
MaxPath == 2
\* The most pointer events one pen drag of the pen specification may hold.
MaxDrag == 3
\* The number of documents of the setlist that is played.
MaxPlayerDocs == 3
\* The most loadPDF calls in flight at once.
MaxLoads == 2
\* The longest history a session of the gesture specification may build.
GestureMaxHistory == 2
\* The most sources a merge request of the library specification may hold.
MaxSources == 3
\* The most entries a merge request with explicit page lists may hold.
MaxSelections == 2
\* The most annotations handed to applyAnnotationsToPDF.
MaxAnnotations == 3
\* The longest history a session of the Edit & Merge specification may build.
FlowMaxHistory == 3

\* The height of every page of the documents, in document units.
PageHeight == 300

\* ------------------------------------------------- program constants
DefaultPenWidth == 2
DefaultFontSize == 16
DefaultColor == "#000000"
HighlightColor == "#FFFF00"

\* ------------------------------------------------------------ inputs
\* An optional value (T | null): the empty sequence is null, <<v>> is v.
None == <<>>
Some(v) == <<v>>

Pt(px, py) == [x |-> px, y |-> py]

\* Canvas coordinates a pointer event may carry.  The three points span a
\* rectangle of zero height (P00-P10), of zero width (P10-P11) and of
\* non-zero area (P00-P11).
Points == {Pt(0, 0), Pt(1, 0), Pt(1, 1)}

\* Canvas coordinates of the history specification: what the history does with
\* a snapshot does not depend on where the pointer was.
HistoryPoints == {Pt(0, 0)}

\* Canvas coordinates of the Edit & Merge specification.
FlowPoints == {Pt(0, 0)}

\* The tool of the Edit & Merge specification: the one that draws by dragging.
FlowTools == {"pen"}

\* Values of the text input: empty, whitespace only, and a padded label.
\* A string is the sequence of its characters.
TextInputs == {<<>>, <<" ">>, <<" ", "a">>}

Tools == {"pen", "highlighter", "text", "crop", "eraser"}

\* Tools of the history specification, one per place that calls addToHistory:
\* pointer release (pen), text submit (text) and pointer down (eraser).
HistoryTools == {"pen", "text", "eraser"}

\* The page count of each source document of the setlist, in setlist order.
DocPages == <<2, 1>>

\* The page count of each source document of the setlist a Select Pages session
\* works on, in setlist order; the last one is a document without pages.
SelectDocPages == <<4, 1, 0>>

VARIABLES
    \* PDFEditor state (PDFEditor.tsx 18-32)
    numPages, pageNumber, tool, annotations, history, historyIndex,
    isDrawing, currentPath, textInput, textPosition, cropStart, cropEnd,
    \* whether react-pdf's <Document> has loaded the blob and renders the canvas
    docLoaded,
    \* SetlistEditPage state (page.tsx 38-45)
    showMergeModal, showPDFEditor, currentEditingPdfIndex, pdfAnnotations,
    isMerging, pdfBlobs,
    \* where the page's asynchronous handlers stand
    flow,
    \* observation of the last handler: its name and the state it started from
    lastOp, pre,
    \* observation: the gesture state the last pointer release or text submit
    \* started from
    gesture,
    \* observation: per source document, the annotations created while it was
    \* the document in the editor
    madeIn,
    \* observation: the documents Save & Continue was clicked on in this Edit &
    \* Merge session, in the order of the clicks
    saved,
    \* observation: what the user wanted of the confirm dialog of the last
    \* Save & Continue: "download", "upload" or "cancel"; "none" before it
    wish,
    \* SetlistEditPage state (page.tsx 39)
    showPageSelector,
    \* PageSelector state (PageSelector 341-343); a Map or Set is the sequence of
    \* its entries in insertion order, which is the order it iterates in
    pageCounts, selections, loading,
    \* the arguments of the handlePageSelectionConfirm call in flight
    request,
    \* observation: the last handler of the page selector and the source it was
    \* called for
    selectorOp,
    \* observation: how the merge that just settled ended, what it handed to
    \* which sink and what was staged when it started
    attempt,
    \* the last call of a library function (lib/pdf-utils.ts, the annotation
    \* utilities) and what it returned or threw
    call, result,
    \* observation: the pointer on the canvas, whether its button is held, where
    \* it went down and where it is now
    pointer,
    \* the currentPath of the last render: what the handlers React has attached
    \* to the canvas read when they name currentPath
    renderedPath,
    \* observation: the points of the pointer-down and of the pointer-moves of
    \* the last pen drag, in the order they arrived
    arrived,
    \* SetlistPlayPage state (layout.tsx 57-60)
    currentIndex, pdfUrl, isLoading, showPlaylist,
    \* the loadPDF calls in flight: per document, how many
    loads,
    \* observation: whether a loadPDF call has failed
    alerted,
    \* the pdfs of the setlist SetlistEditPage edits (page.tsx 28-35), each
    \* entry its id
    pdfs,
    \* observation: the last handler of the list of documents, its arguments and
    \* the list it started from
    listOp

editorVars == <<numPages, pageNumber, tool, annotations, history, historyIndex,
                isDrawing, currentPath, textInput, textPosition, cropStart,
                cropEnd, docLoaded>>
pageVars == <<showMergeModal, showPDFEditor, currentEditingPdfIndex,
              pdfAnnotations, isMerging, pdfBlobs, flow>>
obsVars == <<lastOp, pre, gesture, madeIn, saved, wish>>
selectorVars == <<showPageSelector, pageCounts, selections, loading, request,
                  selectorOp>>
libVars == <<call, result>>
dragVars == <<pointer, renderedPath, arrived>>
playerVars == <<currentIndex, pdfUrl, isLoading, showPlaylist, loads, alerted>>
listVars == <<pdfs, listOp>>
vars == <<editorVars, pageVars, obsVars, selectorVars, attempt, libVars, dragVars,
          playerVars, listVars>>

Min(a, b) == IF a < b THEN a ELSE b
Max(a, b) == IF a > b THEN a ELSE b
Abs(a) == IF a < 0 THEN -a ELSE a

\* String.prototype.trim on a sequence of characters.
RECURSIVE TrimLeft(_)
TrimLeft(s) == IF s # <<>> /\ Head(s) = " " THEN TrimLeft(Tail(s)) ELSE s
RECURSIVE TrimRight(_)
TrimRight(s) ==
    IF s # <<>> /\ s[Len(s)] = " " THEN TrimRight(SubSeq(s, 1, Len(s) - 1)) ELSE s
Trim(s) == TrimRight(TrimLeft(s))

\* ------------------------------------------------------------ editor

\* The state a freshly mounted PDFEditor starts from.
EditorInit ==
    /\ numPages = 0
    /\ pageNumber = 1
    /\ tool = "null"
    /\ annotations = <<>>
    /\ history = <<(<<>>)>>
    /\ historyIndex = 0
    /\ isDrawing = FALSE
    /\ currentPath = <<>>
    /\ textInput = <<>>
    /\ textPosition = None
    /\ cropStart = None
    /\ cropEnd = None
    /\ docLoaded = FALSE

\* A commit that would keep the snapshots after the cursor.
AddToHistoryKeepsFuture == history

\* history.slice(0, historyIndex + 1)
AddToHistorySlice == SubSeq(history, 1, historyIndex + 1)

AddToHistory(newAnnotations) ==
    LET newHistory == Append(AddToHistorySlice, newAnnotations) IN
    /\ history' = newHistory
    /\ historyIndex' = Len(newHistory) - 1
    /\ annotations' = newAnnotations

\* An undo that would move the cursor and leave the live annotations alone.
UndoKeepsLive(s) ==
    IF s.historyIndex > 0
    THEN [s EXCEPT !.historyIndex = s.historyIndex - 1]
    ELSE s

\* An undo that would drop the snapshots after the new cursor.
UndoDropsFuture(s) ==
    IF s.historyIndex > 0
    THEN [s EXCEPT !.history = SubSeq(s.history, 1, s.historyIndex),
                   !.historyIndex = s.historyIndex - 1,
                   !.annotations = s.history[(s.historyIndex - 1) + 1]]
    ELSE s

\* undo as a function of the history state.
UndoOf(s) ==
    IF s.historyIndex > 0
    THEN [s EXCEPT !.historyIndex = s.historyIndex - 1,
                   !.annotations = s.history[(s.historyIndex - 1) + 1]]
    ELSE s

\* A redo that would move the cursor and load the snapshot it came from.
RedoLoadsOldSnapshot(s) ==
    IF s.historyIndex < Len(s.history) - 1
    THEN [s EXCEPT !.historyIndex = s.historyIndex + 1,
                   !.annotations = s.history[s.historyIndex + 1]]
    ELSE s

\* A redo that would wrap around to the first snapshot at the end of the history.
RedoWrapsAround(s) ==
    IF s.historyIndex < Len(s.history) - 1
    THEN [s EXCEPT !.historyIndex = s.historyIndex + 1,
                   !.annotations = s.history[(s.historyIndex + 1) + 1]]
    ELSE [s EXCEPT !.historyIndex = 0, !.annotations = s.history[1]]

\* A redo that would move the cursor and leave the live annotations alone.
RedoKeepsLive(s) ==
    IF s.historyIndex < Len(s.history) - 1
    THEN [s EXCEPT !.historyIndex = s.historyIndex + 1]
    ELSE s

\* redo as a function of the history state.
RedoOf(s) ==
    IF s.historyIndex < Len(s.history) - 1
    THEN [s EXCEPT !.historyIndex = s.historyIndex + 1,
                   !.annotations = s.history[(s.historyIndex + 1) + 1]]
    ELSE s

HistoryState ==
    [history |-> history, historyIndex |-> historyIndex, annotations |-> annotations]

SetHistoryState(s) ==
    /\ history' = s.history
    /\ historyIndex' = s.historyIndex
    /\ annotations' = s.annotations

Undo ==
    /\ SetHistoryState(UndoOf(HistoryState))
    /\ UNCHANGED <<numPages, pageNumber, tool, isDrawing, currentPath, textInput,
                   textPosition, cropStart, cropEnd, docLoaded>>

Redo ==
    /\ SetHistoryState(RedoOf(HistoryState))
    /\ UNCHANGED <<numPages, pageNumber, tool, isDrawing, currentPath, textInput,
                   textPosition, cropStart, cropEnd, docLoaded>>

SetTool(t) ==
    /\ tool' = t
    /\ UNCHANGED <<numPages, pageNumber, annotations, history, historyIndex,
                   isDrawing, currentPath, textInput, textPosition, cropStart,
                   cropEnd, docLoaded>>

\* An eraser that would remove the first annotation.
EraserRemovesFirst(anns) == IF anns = <<>> THEN anns ELSE Tail(anns)

\* The eraser's filter keeps every annotation (both branches return true).
EraserFilter(anns) == SelectSeq(anns, LAMBDA a : TRUE)

\* The canvas is a child of <Document>: it exists once the blob is loaded.  The
\* text modal is a full-screen overlay above it and takes the pointer.
CanvasReachable == docLoaded /\ textPosition = None

\* tool === 'eraser': the branch of handleMouseDown that calls addToHistory.
MouseDownCommits == tool = "eraser"

HandleMouseDown(coords) ==
    /\ CanvasReachable
    /\ CASE tool = "pen" ->
              /\ isDrawing' = TRUE
              /\ currentPath' = <<coords>>
              /\ UNCHANGED <<annotations, history, historyIndex, textPosition,
                             cropStart>>
         [] tool = "highlighter" ->
              /\ isDrawing' = TRUE
              /\ cropStart' = Some(coords)
              /\ UNCHANGED <<annotations, history, historyIndex, textPosition,
                             currentPath>>
         [] tool = "text" ->
              /\ textPosition' = Some(coords)
              /\ UNCHANGED <<annotations, history, historyIndex, isDrawing,
                             currentPath, cropStart>>
         [] tool = "crop" ->
              /\ cropStart' = Some(coords)
              /\ UNCHANGED <<annotations, history, historyIndex, isDrawing,
                             currentPath, textPosition>>
         [] MouseDownCommits ->
              /\ AddToHistory(EraserFilter(annotations))
              /\ UNCHANGED <<isDrawing, currentPath, textPosition, cropStart>>
         [] OTHER ->
              UNCHANGED <<annotations, history, historyIndex, isDrawing,
                          currentPath, textPosition, cropStart>>
    /\ UNCHANGED <<numPages, pageNumber, tool, textInput, cropEnd, docLoaded>>

\* A handleMouseMove that would commit the pen stroke point by point.
HandleMouseMoveCommitting(coords) ==
    /\ CanvasReachable
    /\ isDrawing
    /\ tool = "pen"
    /\ currentPath' = Append(currentPath, coords)
    /\ AddToHistory(Append(annotations,
           [type |-> "pen", pageNumber |-> pageNumber - 1,
            points |-> Append(currentPath, coords), color |-> DefaultColor,
            width |-> DefaultPenWidth]))
    /\ UNCHANGED <<numPages, pageNumber, tool, isDrawing, textInput, textPosition,
                   cropStart, cropEnd, docLoaded>>

HandleMouseMove(coords) ==
    /\ CanvasReachable
    /\ IF ~isDrawing
       THEN UNCHANGED <<currentPath, cropEnd>>
       ELSE CASE tool = "pen" ->
                   /\ currentPath' = Append(currentPath, coords)
                   /\ UNCHANGED cropEnd
              [] tool \in {"highlighter", "crop"} ->
                   /\ cropEnd' = Some(coords)
                   /\ UNCHANGED currentPath
              [] OTHER -> UNCHANGED <<currentPath, cropEnd>>
    /\ UNCHANGED <<numPages, pageNumber, tool, annotations, history, historyIndex,
                   isDrawing, textInput, textPosition, cropStart, docLoaded>>

PenAnnotation(path) ==
    [type |-> "pen", pageNumber |-> pageNumber - 1, points |-> path,
     color |-> DefaultColor, width |-> DefaultPenWidth]

\* A width that keeps the sign of the drag direction.
RectWidthSigned(a, b) == b.x - a.x

\* The rectangle of a highlight or crop gesture from a to b.
RectX(a, b) == Min(a.x, b.x)
RectY(a, b) == Min(a.y, b.y)
RectWidth(a, b) == Abs(b.x - a.x)
RectHeight(a, b) == Abs(b.y - a.y)

HighlightAnnotation(a, b) ==
    [type |-> "highlight", pageNumber |-> pageNumber - 1,
     x |-> RectX(a, b), y |-> RectY(a, b),
     width |-> RectWidth(a, b), height |-> RectHeight(a, b),
     color |-> HighlightColor]

CropAnnotation(a, b) ==
    [type |-> "crop", pageNumber |-> pageNumber - 1,
     x |-> RectX(a, b), y |-> RectY(a, b),
     width |-> RectWidth(a, b), height |-> RectHeight(a, b)]

TextAnnotation(pos, text) ==
    [type |-> "text", pageNumber |-> pageNumber - 1, x |-> pos.x, y |-> pos.y,
     text |-> text, fontSize |-> DefaultFontSize, color |-> DefaultColor]

\* !isDrawing && tool !== 'crop': the handler returns at once.
MouseUpReturns == ~isDrawing /\ tool # "crop"
\* A pen release that would accept a stroke of a single point.
PenCommitsSinglePoint == tool = "pen" /\ Len(currentPath) > 0
\* tool === 'pen' && currentPath.length > 1
PenCommits == tool = "pen" /\ Len(currentPath) > 1
\* tool === 'highlighter' && cropStart && cropEnd
HighlightCommits == tool = "highlighter" /\ cropStart # None /\ cropEnd # None
\* tool === 'crop' && cropStart && cropEnd
CropCommits == tool = "crop" /\ cropStart # None /\ cropEnd # None
\* The handler reaches one of its addToHistory calls.
MouseUpCommits == ~MouseUpReturns /\ (PenCommits \/ HighlightCommits \/ CropCommits)

\* onMouseUp and onMouseLeave of the canvas.
HandleMouseUp ==
    /\ docLoaded
    /\ IF MouseUpReturns
       THEN UNCHANGED <<annotations, history, historyIndex, cropStart, cropEnd,
                        isDrawing, currentPath>>
       ELSE /\ CASE PenCommits ->
                      /\ AddToHistory(Append(annotations, PenAnnotation(currentPath)))
                      /\ UNCHANGED <<cropStart, cropEnd>>
                 [] HighlightCommits ->
                      /\ AddToHistory(Append(annotations,
                             HighlightAnnotation(cropStart[1], cropEnd[1])))
                      /\ cropStart' = None
                      /\ cropEnd' = None
                 [] CropCommits ->
                      /\ AddToHistory(Append(annotations,
                             CropAnnotation(cropStart[1], cropEnd[1])))
                      /\ cropStart' = None
                      /\ cropEnd' = None
                 [] OTHER ->
                      UNCHANGED <<annotations, history, historyIndex, cropStart,
                                  cropEnd>>
            /\ isDrawing' = FALSE
            /\ currentPath' = <<>>
    /\ UNCHANGED <<numPages, pageNumber, tool, textInput, textPosition, docLoaded>>

\* onChange of the text modal's input; the modal exists while textPosition is set.
SetTextInput(s) ==
    /\ textPosition # None
    /\ textInput' = s
    /\ UNCHANGED <<numPages, pageNumber, tool, annotations, history, historyIndex,
                   isDrawing, currentPath, textPosition, cropStart, cropEnd,
                   docLoaded>>

\* The modal's Cancel button.
CancelText ==
    /\ textPosition # None
    /\ textPosition' = None
    /\ textInput' = <<>>
    /\ UNCHANGED <<numPages, pageNumber, tool, annotations, history, historyIndex,
                   isDrawing, currentPath, cropStart, cropEnd, docLoaded>>

\* A submit that would test the input without trimming it.
TextSubmitRejectsUntrimmed == textPosition = None \/ textInput = <<>>

\* !textPosition || !textInput.trim()
TextSubmitRejects == textPosition = None \/ Trim(textInput) = <<>>

HandleTextSubmit ==
    /\ IF TextSubmitRejects
       THEN UNCHANGED <<annotations, history, historyIndex, textPosition,
                        textInput, tool>>
       ELSE /\ AddToHistory(Append(annotations,
                                   TextAnnotation(textPosition[1], textInput)))
            /\ textPosition' = None
            /\ textInput' = <<>>
            /\ tool' = "null"
    /\ UNCHANGED <<numPages, pageNumber, isDrawing, currentPath, cropStart,
                   cropEnd, docLoaded>>

\* The Previous button (disabled on page 1).
PrevPage ==
    /\ pageNumber # 1
    /\ pageNumber' = Max(1, pageNumber - 1)
    /\ UNCHANGED <<numPages, tool, annotations, history, historyIndex, isDrawing,
                   currentPath, textInput, textPosition, cropStart, cropEnd,
                   docLoaded>>

\* The Next button (disabled when pageNumber equals numPages).
NextPage ==
    /\ pageNumber # numPages
    /\ pageNumber' = Min(numPages, pageNumber + 1)
    /\ UNCHANGED <<numPages, tool, annotations, history, historyIndex, isDrawing,
                   currentPath, textInput, textPosition, cropStart, cropEnd,
                   docLoaded>>

\* react-pdf reports the page count of the blob it was given.
OnDocumentLoadSuccess(n) ==
    /\ ~docLoaded
    /\ docLoaded' = TRUE
    /\ numPages' = n
    /\ UNCHANGED <<pageNumber, tool, annotations, history, historyIndex, isDrawing,
                   currentPath, textInput, textPosition, cropStart, cropEnd>>

\* ------------------------------------------------- Edit & Merge flow

\* setlist.pdfs.length
NumDocs == Len(DocPages)

\* The blob loadAllPDFs resolves for the document at index i (0-based) is
\* written i: a blob is told apart by the document it holds.
AllBlobs == [i \in 1..NumDocs |-> i - 1]

\* The blobs loadAllPDFs resolves for the setlist of a Select Pages session;
\* they are numbered after those of the Edit & Merge setlist.
SelectBlobs == [i \in 1..Len(SelectDocPages) |-> NumDocs + i - 1]

\* pageCount of the document a blob holds.
PageCount(blob) == (DocPages \o SelectDocPages)[blob + 1]

EmptyMap == <<>>

EditorReset ==
    /\ numPages' = 0
    /\ pageNumber' = 1
    /\ tool' = "null"
    /\ annotations' = <<>>
    /\ history' = <<(<<>>)>>
    /\ historyIndex' = 0
    /\ isDrawing' = FALSE
    /\ currentPath' = <<>>
    /\ textInput' = <<>>
    /\ textPosition' = None
    /\ cropStart' = None
    /\ cropEnd' = None
    /\ docLoaded' = FALSE

PageInit ==
    /\ showMergeModal = FALSE
    /\ showPDFEditor = FALSE
    /\ currentEditingPdfIndex = 0
    /\ pdfAnnotations = EmptyMap
    /\ isMerging = FALSE
    /\ pdfBlobs = <<>>
    /\ flow = "idle"

\* showPDFEditor && pdfBlobs[currentEditingPdfIndex]
EditorMounted == showPDFEditor /\ currentEditingPdfIndex < Len(pdfBlobs)

\* The Merge PDFs button; it lies under the overlay of the editor or of the page
\* selector while one of them is open.
OpenMergeModal ==
    /\ NumDocs >= 2
    /\ ~EditorMounted
    /\ ~showPageSelector
    /\ ~showMergeModal
    /\ showMergeModal' = TRUE
    /\ UNCHANGED <<showPDFEditor, currentEditingPdfIndex, pdfAnnotations,
                   isMerging, pdfBlobs, flow>>
    /\ UNCHANGED editorVars

\* The modal's close button (disabled while isMerging).
CloseMergeModal ==
    /\ showMergeModal
    /\ ~isMerging
    /\ showMergeModal' = FALSE
    /\ UNCHANGED <<showPDFEditor, currentEditingPdfIndex, pdfAnnotations,
                   isMerging, pdfBlobs, flow>>
    /\ UNCHANGED editorVars

\* handleEditAndMerge up to its await of loadAllPDFs.  The modal offers the
\* option only while isMerging is false.
HandleEditAndMerge ==
    /\ showMergeModal
    /\ ~isMerging
    /\ flow = "idle"
    /\ isMerging' = TRUE
    /\ flow' = "loadingForEdit"
    /\ UNCHANGED <<showMergeModal, showPDFEditor, currentEditingPdfIndex,
                   pdfAnnotations, pdfBlobs>>
    /\ UNCHANGED editorVars

\* loadAllPDFs resolved: the editor is mounted on the first document.
EditLoadSucceeded ==
    /\ flow = "loadingForEdit"
    /\ pdfBlobs' = AllBlobs
    /\ showMergeModal' = FALSE
    /\ currentEditingPdfIndex' = 0
    /\ showPDFEditor' = TRUE
    /\ flow' = "editing"
    /\ UNCHANGED <<pdfAnnotations, isMerging>>
    /\ EditorReset

\* loadAllPDFs threw.
EditLoadFailed ==
    /\ flow = "loadingForEdit"
    /\ isMerging' = FALSE
    /\ flow' = "idle"
    /\ UNCHANGED <<showMergeModal, showPDFEditor, currentEditingPdfIndex,
                   pdfAnnotations, pdfBlobs>>
    /\ UNCHANGED editorVars

\* newMap of handleAnnotationSave.
SavedMap(anns) ==
    IF Len(anns) > 0
    THEN (currentEditingPdfIndex :> anns) @@ pdfAnnotations
    ELSE pdfAnnotations

\* A handleAnnotationSave that would take every document for the last one.
NeverHasNextDocument == FALSE

\* currentEditingPdfIndex < setlist.pdfs.length - 1
HasNextDocument == currentEditingPdfIndex < NumDocs - 1

\* Save & Continue on a document that is not the last one.  The editor element
\* keeps its place in the tree, so its state lives on; only its blob changes.
HandleAnnotationSaveNext ==
    /\ EditorMounted
    /\ HasNextDocument
    /\ pdfAnnotations' = SavedMap(annotations)
    /\ currentEditingPdfIndex' = currentEditingPdfIndex + 1
    /\ docLoaded' = FALSE
    /\ UNCHANGED <<showMergeModal, showPDFEditor, isMerging, pdfBlobs, flow>>
    /\ UNCHANGED <<numPages, pageNumber, tool, annotations, history, historyIndex,
                   isDrawing, currentPath, textInput, textPosition, cropStart,
                   cropEnd>>

\* Save & Continue on the last document: the editor is closed and confirm()
\* answers.  confirmed !== null holds for an answer that is true or false, and
\* finishMergeWithAnnotations starts; the other branch clears the session.
HandleAnnotationSaveLast(confirmed) ==
    /\ EditorMounted
    /\ ~HasNextDocument
    /\ showPDFEditor' = FALSE
    /\ IF confirmed \in BOOLEAN
       THEN /\ pdfAnnotations' = SavedMap(annotations)
            /\ isMerging' = TRUE
            /\ flow' = IF confirmed THEN "mergingForDownload" ELSE "mergingForUpload"
            /\ UNCHANGED pdfBlobs
       ELSE /\ pdfBlobs' = <<>>
            /\ pdfAnnotations' = EmptyMap
            /\ isMerging' = FALSE
            /\ flow' = "idle"
    /\ UNCHANGED <<showMergeModal, currentEditingPdfIndex>>
    /\ EditorReset

\* onCancel of the editor.
EditorCancel ==
    /\ EditorMounted
    /\ showPDFEditor' = FALSE
    /\ pdfBlobs' = <<>>
    /\ pdfAnnotations' = EmptyMap
    /\ flow' = "idle"
    /\ UNCHANGED <<showMergeModal, currentEditingPdfIndex, isMerging>>
    /\ EditorReset

\* ------------------------------------------------- Select Pages flow

\* The handler of the page selector that ran last; pdfIndex is -1 for a handler
\* that is not called for one source.
SelectorOp(op, pdfIndex) == [op |-> op, pdfIndex |-> pdfIndex]
NoSelectorOp == SelectorOp("none", -1)

\* No page selector is mounted and no selection merge is in flight.
NoRequest == [option |-> "none", selections |-> <<>>]

\* The page stops rendering PageSelector: its state is gone, and the next mount
\* starts from useState's initial values.
SelectorUnmounted ==
    /\ showPageSelector' = FALSE
    /\ pageCounts' = <<>>
    /\ selections' = <<>>
    /\ loading' = TRUE
    /\ selectorOp' = NoSelectorOp

\* The page before Select Pages was ever chosen.
SelectorInit ==
    /\ showPageSelector = FALSE
    /\ pageCounts = <<>>
    /\ selections = <<>>
    /\ loading = TRUE
    /\ request = NoRequest
    /\ selectorOp = NoSelectorOp

\* handleSelectPages up to its await of loadAllPDFs.
HandleSelectPages ==
    /\ showMergeModal
    /\ ~isMerging
    /\ flow = "idle"
    /\ isMerging' = TRUE
    /\ flow' = "loadingForSelect"
    /\ UNCHANGED <<showMergeModal, showPDFEditor, currentEditingPdfIndex,
                   pdfAnnotations, pdfBlobs>>
    /\ UNCHANGED selectorVars

\* loadAllPDFs resolved: the page selector is mounted, with its initial state.
SelectLoadSucceeded ==
    /\ flow = "loadingForSelect"
    /\ pdfBlobs' = SelectBlobs
    /\ showMergeModal' = FALSE
    /\ isMerging' = FALSE
    /\ flow' = "selecting"
    /\ showPageSelector' = TRUE
    /\ pageCounts' = <<>>
    /\ selections' = <<>>
    /\ loading' = TRUE
    /\ selectorOp' = NoSelectorOp
    /\ UNCHANGED <<showPDFEditor, currentEditingPdfIndex, pdfAnnotations, request>>

\* loadAllPDFs threw.
SelectLoadFailed ==
    /\ flow = "loadingForSelect"
    /\ isMerging' = FALSE
    /\ flow' = "idle"
    /\ UNCHANGED <<showMergeModal, showPDFEditor, currentEditingPdfIndex,
                   pdfAnnotations, pdfBlobs>>
    /\ UNCHANGED selectorVars

\* The frame of a handler of the mounted page selector.
SelectorFrame ==
    /\ UNCHANGED pageVars
    /\ UNCHANGED <<showPageSelector, pageCounts, loading, request>>

\* An initial selection that would leave the first page out.
AllPagesButFirst(count) == [k \in 1..(count - 1) |-> k]

\* The Set of all page indices below count, as the loop inserts them.
AllPages(count) == [k \in 1..count |-> k - 1]

\* loadPageCounts resolved: every page of every source is selected.
LoadPageCountsSucceeded ==
    /\ showPageSelector
    /\ loading
    /\ pageCounts' = [i \in DOMAIN pdfBlobs |-> PageCount(pdfBlobs[i])]
    /\ selections' = [i \in DOMAIN pdfBlobs |->
                         [pdfIndex |-> i - 1,
                          pages |-> AllPages(PageCount(pdfBlobs[i]))]]
    /\ loading' = FALSE
    /\ selectorOp' = SelectorOp("loadPageCounts", -1)
    /\ UNCHANGED pageVars
    /\ UNCHANGED <<showPageSelector, request>>

\* loadPageCounts threw: the selector shows the sources without pages.
LoadPageCountsFailed ==
    /\ showPageSelector
    /\ loading
    /\ loading' = FALSE
    /\ selectorOp' = SelectorOp("loadPageCountsFailed", -1)
    /\ UNCHANGED pageVars
    /\ UNCHANGED <<showPageSelector, pageCounts, selections, request>>

\* The selector renders its buttons once loading is over.
SelectorReady == showPageSelector /\ ~loading

\* pageCounts[pdfIndex] || 0
PageCountAt(pdfIndex) ==
    IF pdfIndex + 1 \in DOMAIN pageCounts THEN pageCounts[pdfIndex + 1] ELSE 0

\* Map.get(key) || new Set()
MapGet(map, key) ==
    IF \E e \in DOMAIN map : map[e].pdfIndex = key
    THEN map[CHOOSE e \in DOMAIN map : map[e].pdfIndex = key].pages
    ELSE <<>>

\* Map.set(key, pages): a key the Map holds keeps its place, a new key goes last.
MapSet(map, key, pages) ==
    IF \E e \in DOMAIN map : map[e].pdfIndex = key
    THEN [e \in DOMAIN map |->
            IF map[e].pdfIndex = key THEN [map[e] EXCEPT !.pages = pages] ELSE map[e]]
    ELSE Append(map, [pdfIndex |-> key, pages |-> pages])

\* Set.has(v)
SetHas(set, v) == \E k \in DOMAIN set : set[k] = v

\* Set.delete(v)
SetDelete(set, v) == SelectSeq(set, LAMBDA w : w # v)

\* Set.add(v): a new value goes last.
SetAdd(set, v) == IF SetHas(set, v) THEN set ELSE Append(set, v)

TogglePage(pdfIndex, page) ==
    /\ SelectorReady
    /\ page < PageCountAt(pdfIndex)
    /\ selections' = MapSet(selections, pdfIndex,
                            IF SetHas(MapGet(selections, pdfIndex), page)
                            THEN SetDelete(MapGet(selections, pdfIndex), page)
                            ELSE SetAdd(MapGet(selections, pdfIndex), page))
    /\ selectorOp' = SelectorOp("togglePage", pdfIndex)
    /\ SelectorFrame

SelectAll(pdfIndex) ==
    /\ SelectorReady
    /\ selections' = MapSet(selections, pdfIndex, AllPages(PageCountAt(pdfIndex)))
    /\ selectorOp' = SelectorOp("selectAll", pdfIndex)
    /\ SelectorFrame

SelectNone(pdfIndex) ==
    /\ SelectorReady
    /\ selections' = MapSet(selections, pdfIndex, <<>>)
    /\ selectorOp' = SelectorOp("selectNone", pdfIndex)
    /\ SelectorFrame

SelectFirst(pdfIndex) ==
    /\ SelectorReady
    /\ selections' = MapSet(selections, pdfIndex, <<0>>)
    /\ selectorOp' = SelectorOp("selectFirst", pdfIndex)
    /\ SelectorFrame

\* A selectOdd that would take the odd zero-based indices.
OddIndex(i) == i % 2 = 1

\* The indices the loop of selectOdd visits: i = 0; i += 2.
OddPage(i) == i % 2 = 0

\* The indices the loop of selectEven visits: i = 1; i += 2.
EvenPage(i) == i % 2 = 1

\* for (let i = 0; i < pageCounts[pdfIndex]; i += 2)
SelectOdd(pdfIndex) ==
    /\ SelectorReady
    /\ selections' = MapSet(selections, pdfIndex,
                            SelectSeq(AllPages(PageCountAt(pdfIndex)), OddPage))
    /\ selectorOp' = SelectorOp("selectOdd", pdfIndex)
    /\ SelectorFrame

\* for (let i = 1; i < pageCounts[pdfIndex]; i += 2)
SelectEven(pdfIndex) ==
    /\ SelectorReady
    /\ selections' = MapSet(selections, pdfIndex,
                            SelectSeq(AllPages(PageCountAt(pdfIndex)), EvenPage))
    /\ selectorOp' = SelectorOp("selectEven", pdfIndex)
    /\ SelectorFrame

\* A handleConfirm that would forward every entry of the Map.
KeepsSelection(entry) == TRUE

\* pages.size > 0
HasSelectedPages(entry) == Len(entry.pages) > 0

\* The list handleConfirm builds: one entry per Map entry with pages, in the
\* order the Map iterates; Array.from(pages) is the Set in insertion order.
PageSelections ==
    LET kept == SelectSeq(selections, HasSelectedPages) IN
    [e \in DOMAIN kept |->
        [pdfIndex |-> kept[e].pdfIndex, pageNumbers |-> kept[e].pages]]

\* pageSelections.length === 0
NothingSelected(list) == Len(list) = 0

\* Continue to Merge: handleConfirm, the onConfirm of the page and
\* handlePageSelectionConfirm up to its await.  confirm() answers true or false.
HandleConfirm(confirmed) ==
    /\ SelectorReady
    /\ IF NothingSelected(PageSelections)
       THEN /\ UNCHANGED pageVars
            /\ UNCHANGED selectorVars
       ELSE /\ request' = [option |-> IF confirmed THEN "download" ELSE "upload",
                           selections |-> PageSelections]
            /\ isMerging' = TRUE
            /\ flow' = "mergingSelection"
            /\ SelectorUnmounted
            /\ UNCHANGED <<showMergeModal, showPDFEditor, currentEditingPdfIndex,
                           pdfAnnotations, pdfBlobs>>

\* onCancel of the page selector.
SelectorCancel ==
    /\ SelectorReady
    /\ pdfBlobs' = <<>>
    /\ flow' = "idle"
    /\ SelectorUnmounted
    /\ UNCHANGED <<showMergeModal, showPDFEditor, currentEditingPdfIndex,
                   pdfAnnotations, isMerging, request>>

\* ----------------------------------------------------------- library

\* A page of a document: where it came from, its height in document units, what
\* has been drawn on it (in drawing order) and its crop box.
Page(src, index) ==
    [src |-> src, index |-> index, height |-> PageHeight, marks |-> <<>>,
     cropBox |-> None]

\* A Blob holding a PDF of n pages.  id tells Blob objects apart.
MakeBlob(id, n) == [id |-> id, pages |-> [k \in 1..n |-> Page(id, k - 1)]]

\* What an async function settles with: a returned Blob or a thrown error.
Return(blob) == [ok |-> TRUE, blob |-> Some(blob), error |-> "none"]
Throw(error) == [ok |-> FALSE, blob |-> None, error |-> error]

\* createPDFBlob: the saved bytes are wrapped in a new Blob.
CreatePDFBlob(pages) == [id |-> "new", pages |-> pages]

\* Array.from({ length: pageCount }, (_, i) => i), written highest index first.
PageIndicesDescending(pageCount) == [k \in 1..pageCount |-> pageCount - k]

\* Array.from({ length: pageCount }, (_, i) => i)
PageIndices(pageCount) == [k \in 1..pageCount |-> k - 1]

\* copyPages(pdfDoc, indices): the pages at the given indices, in that order.
CopyPages(blob, indices) == [k \in 1..Len(indices) |-> blob.pages[indices[k] + 1]]

\* The loop of mergePDFs: every page of every blob is added, blob by blob.
RECURSIVE MergeLoop(_, _)
MergeLoop(blobs, merged) ==
    IF blobs = <<>>
    THEN merged
    ELSE MergeLoop(Tail(blobs),
                   merged \o CopyPages(Head(blobs),
                                       PageIndices(Len(Head(blobs).pages))))

\* A mergePDFs without its test for an empty request.
NeverEmptyRequest(blobs) == FALSE

\* pdfBlobs.length === 0
IsEmptyRequest(blobs) == Len(blobs) = 0

\* A mergePDFs without its fast path.
NeverSingleSource(blobs) == FALSE

\* pdfBlobs.length === 1
IsSingleSource(blobs) == Len(blobs) = 1

MergePDFs(blobs) ==
    IF IsEmptyRequest(blobs)
    THEN Throw("No PDFs to merge")
    ELSE IF IsSingleSource(blobs)
         THEN Return(blobs[1])
         ELSE Return(CreatePDFBlob(MergeLoop(blobs, <<>>)))

\* hexToRgb, in 255ths; a string the pattern does not match gives black.
HexToRgb(hex) ==
    CASE hex = "#000000" -> <<0, 0, 0>>
      [] hex = "#FFFF00" -> <<255, 255, 0>>
      [] OTHER -> <<0, 0, 0>>

\* drawPenAnnotation: one line per pair of consecutive points, y flipped.
DrawPenAnnotation(page, a) ==
    IF Len(a.points) < 2
    THEN page
    ELSE [page EXCEPT !.marks = @ \o
            [i \in 1..(Len(a.points) - 1) |->
                [op |-> "line",
                 start |-> [x |-> a.points[i].x, y |-> page.height - a.points[i].y],
                 end |-> [x |-> a.points[i + 1].x,
                          y |-> page.height - a.points[i + 1].y],
                 thickness |-> a.width, color |-> HexToRgb(a.color)]]]

\* A drawHighlightAnnotation that would measure y from the top edge downwards.
DrawHighlightUnflipped(page, a) ==
    [page EXCEPT !.marks = Append(@,
        [op |-> "rectangle", x |-> a.x, y |-> a.y,
         width |-> a.width, height |-> a.height, color |-> HexToRgb(a.color),
         opacity |-> 30])]

\* drawHighlightAnnotation: a rectangle at 30% opacity (in percent).
DrawHighlightAnnotation(page, a) ==
    [page EXCEPT !.marks = Append(@,
        [op |-> "rectangle", x |-> a.x, y |-> page.height - a.y - a.height,
         width |-> a.width, height |-> a.height, color |-> HexToRgb(a.color),
         opacity |-> 30])]

DrawTextAnnotation(page, a) ==
    [page EXCEPT !.marks = Append(@,
        [op |-> "text", text |-> a.text, x |-> a.x,
         y |-> page.height - a.y - a.fontSize, size |-> a.fontSize,
         color |-> HexToRgb(a.color)])]

\* applyCropAnnotation: setCropBox replaces the page's crop box.
ApplyCropAnnotation(page, a) ==
    [page EXCEPT !.cropBox = Some([x |-> a.x, y |-> page.height - a.y - a.height,
                                   width |-> a.width, height |-> a.height])]

\* The body of the inner loop of applyAnnotationsToPDF.
DrawAnnotation(page, a) ==
    CASE a.type = "pen" -> DrawPenAnnotation(page, a)
      [] a.type = "highlight" -> DrawHighlightAnnotation(page, a)
      [] a.type = "text" -> DrawTextAnnotation(page, a)
      [] a.type = "crop" -> ApplyCropAnnotation(page, a)
      [] OTHER -> page

RECURSIVE DrawAll(_, _)
DrawAll(page, anns) ==
    IF anns = <<>> THEN page ELSE DrawAll(DrawAnnotation(page, Head(anns)), Tail(anns))

\* The keys of annotationsByPage, in the order a Map iterates them: the order
\* in which each pageNumber first appears.
RECURSIVE PageKeys(_, _)
PageKeys(anns, keys) ==
    IF anns = <<>>
    THEN keys
    ELSE PageKeys(Tail(anns),
                  IF \E k \in DOMAIN keys : keys[k] = Head(anns).pageNumber
                  THEN keys
                  ELSE Append(keys, Head(anns).pageNumber))

\* A grouping that would hand out the annotations of a page latest first.
PageGroupLatestFirst(anns, key) ==
    LET group == SelectSeq(anns, LAMBDA a : a.pageNumber = key) IN
    [k \in DOMAIN group |-> group[Len(group) + 1 - k]]

\* annotationsByPage.get(key)
PageGroup(anns, key) == SelectSeq(anns, LAMBDA a : a.pageNumber = key)

\* pdfDoc.getPage(index) throws unless 0 <= index < page count.
GetPageThrows(pages, index) == index < 0 \/ index >= Len(pages)

\* The outer loop of applyAnnotationsToPDF over the loaded copy of the document:
\* it stops where getPage throws.
RECURSIVE ApplyLoop(_, _, _)
ApplyLoop(pages, keys, anns) ==
    IF keys = <<>>
    THEN [threw |-> FALSE, pages |-> pages]
    ELSE IF GetPageThrows(pages, Head(keys))
         THEN [threw |-> TRUE, pages |-> pages]
         ELSE ApplyLoop([pages EXCEPT ![Head(keys) + 1] =
                            DrawAll(@, PageGroup(anns, Head(keys)))],
                        Tail(keys), anns)

\* An applyAnnotationsToPDF that would save what it had drawn when getPage throws.
ApplySavesPartial(pages) == Return(CreatePDFBlob(pages))

\* The exception of getPage leaves applyAnnotationsToPDF; the copy is dropped.
ApplyThrows(pages) == Throw("index out of range")

ApplyAnnotationsToPDF(blob, anns) ==
    LET r == ApplyLoop(blob.pages, PageKeys(anns, <<>>), anns) IN
    IF r.threw THEN ApplyThrows(r.pages) ELSE Return(CreatePDFBlob(r.pages))

\* One entry of a merge request names a source that was staged and pages it has.
SelectionInRange(blobs, sel) ==
    /\ sel.pdfIndex >= 0
    /\ sel.pdfIndex < Len(blobs)
    /\ \A k \in DOMAIN sel.pageNumbers :
          /\ sel.pageNumbers[k] >= 0
          /\ sel.pageNumbers[k] < Len(blobs[sel.pdfIndex + 1].pages)

\* A bubble sort pass and the ascending sort built from it.
RECURSIVE SortAscending(_)
SortAscending(list) ==
    IF \E k \in 1..(Len(list) - 1) : list[k] > list[k + 1]
    THEN LET k == CHOOSE j \in 1..(Len(list) - 1) : list[j] > list[j + 1] IN
         SortAscending([list EXCEPT ![k] = list[k + 1], ![k + 1] = list[k]])
    ELSE list

\* A merge that would normalise an explicit page list to ascending order.
ResolvedPageListSorted(sel) == SortAscending(sel.pageNumbers)

\* The resolved page list of a source with an explicit list: the list as given.
ResolvedPageList(sel) == sel.pageNumbers

\* The general case of the merge over explicit page lists: source by source in
\* request order; it stops at the first entry with an index out of range.
RECURSIVE SelectionLoop(_, _, _)
SelectionLoop(blobs, sels, merged) ==
    IF sels = <<>>
    THEN [failed |-> FALSE, pages |-> merged]
    ELSE IF ~SelectionInRange(blobs, Head(sels))
         THEN [failed |-> TRUE, pages |-> merged]
         ELSE SelectionLoop(blobs, Tail(sels),
                            merged \o CopyPages(blobs[Head(sels).pdfIndex + 1],
                                                ResolvedPageList(Head(sels))))

\* A merge that would return the pages copied before the invalid index.
ReturnsPartialMerge(pages) == Return(CreatePDFBlob(pages))

\* An invalid index fails the whole merge.
PageIndexOutOfRange(pages) == Throw("PageIndexOutOfRange")

\* The merge over explicit page lists: an empty request fails, else the pages
\* the loop collected are saved into a new Blob.
MergePDFsWithSelection(blobs, sels) ==
    IF Len(sels) = 0
    THEN Throw("EmptyMergeRequest")
    ELSE LET r == SelectionLoop(blobs, sels, <<>>) IN
         IF r.failed
         THEN PageIndexOutOfRange(r.pages)
         ELSE Return(CreatePDFBlob(r.pages))

\* ------------------------------------------------- merges in flight

\* The staged blob of a source document, as the library reads it.
SourceBlob(blob) == MakeBlob(blob, PageCount(blob))

\* pdfBlobs, as the library reads them.
StagedBlobs == [i \in DOMAIN pdfBlobs |-> SourceBlob(pdfBlobs[i])]

\* No merge has just settled.
NoAttempt ==
    [status |-> "none", cause |-> "none", sinks |-> {}, output |-> None,
     blobs |-> <<>>, annotations |-> EmptyMap, selections |-> <<>>,
     handed |-> None]

\* option === 'download'
TakesDownloadBranch(option) == option = "download"

\* A handler that would go on to the upload after a download.
UploadsAfterDownload(option) == TRUE

\* The else branch of option === 'download'.
TakesUploadBranch(option) == ~TakesDownloadBranch(option)

\* What the try block of a merge handler does with the outcome res of its
\* composition and merge: download, or upload when signed in to Drive; a throw
\* anywhere ends in the catch block.  sinks are the places the merged blob was
\* handed to: the download link, uploadPDFToDrive.  staged is what the handler
\* started from, and the list it handed to mergePDFs if it came to call it.
Attempt(res, option, authenticated, uploaded, staged) ==
    [status |-> IF ~res.ok THEN "failed"
                ELSE IF option = "download" THEN "merged"
                ELSE IF ~authenticated THEN "unauthenticated"
                ELSE IF uploaded THEN "merged" ELSE "failed",
     cause |-> IF ~res.ok THEN "merge"
               ELSE IF option = "upload" /\ authenticated /\ ~uploaded
                    THEN "upload" ELSE "none",
     sinks |-> IF ~res.ok
               THEN {}
               ELSE (IF TakesDownloadBranch(option) THEN {"download"} ELSE {})
                    \cup (IF TakesUploadBranch(option) /\ authenticated
                          THEN {"upload"} ELSE {}),
     output |-> IF res.ok /\ (option = "download" \/ authenticated)
                THEN res.blob ELSE None,
     blobs |-> staged.blobs, annotations |-> staged.annotations,
     selections |-> staged.selections, handed |-> staged.handed]

\* handlePageSelectionConfirm from its await to the end of its finally block.
PageSelectionMergeSettles(authenticated, uploaded) ==
    /\ flow = "mergingSelection"
    /\ attempt' = Attempt(MergePDFsWithSelection(StagedBlobs, request.selections),
                          request.option, authenticated, uploaded,
                          [blobs |-> pdfBlobs, annotations |-> pdfAnnotations,
                           selections |-> request.selections, handed |-> None])
    /\ isMerging' = FALSE
    /\ pdfBlobs' = <<>>
    /\ flow' = "idle"
    /\ request' = NoRequest
    /\ UNCHANGED <<showMergeModal, showPDFEditor, currentEditingPdfIndex,
                   pdfAnnotations>>
    /\ UNCHANGED <<showPageSelector, pageCounts, selections, loading, selectorOp>>

\* A loop that takes every source for one without annotations.
NeverHasAnnotations(i) == FALSE

\* annotationsMap.get(i), when it is a non-empty list.
HasAnnotations(i) == i \in DOMAIN pdfAnnotations /\ Len(pdfAnnotations[i]) > 0

\* The loop of finishMergeWithAnnotations: per staged source, the outcome of
\* applyAnnotationsToPDF when a non-empty list was saved for it, the staged
\* blob otherwise.
AnnotatedBlobs ==
    [i \in DOMAIN pdfBlobs |->
        IF HasAnnotations(i - 1)
        THEN ApplyAnnotationsToPDF(SourceBlob(pdfBlobs[i]), pdfAnnotations[i - 1])
        ELSE Return(SourceBlob(pdfBlobs[i]))]

\* annotatedBlobs when the loop has ended and mergePDFs is called.
HandedToMergePDFs == [i \in DOMAIN AnnotatedBlobs |-> AnnotatedBlobs[i].blob[1]]

\* Composition and merge of finishMergeWithAnnotations: the first throw of
\* applyAnnotationsToPDF leaves the loop, else the annotated blobs are merged.
ComposeAndMerge ==
    IF \E i \in DOMAIN AnnotatedBlobs : ~AnnotatedBlobs[i].ok
    THEN AnnotatedBlobs[CHOOSE i \in DOMAIN AnnotatedBlobs :
                           /\ ~AnnotatedBlobs[i].ok
                           /\ \A j \in 1..(i - 1) : AnnotatedBlobs[j].ok]
    ELSE MergePDFs(HandedToMergePDFs)

\* finishMergeWithAnnotations from its first await to the end of its finally
\* block.
FinishMergeWithAnnotations(authenticated, uploaded) ==
    /\ flow \in {"mergingForDownload", "mergingForUpload"}
    /\ attempt' = Attempt(ComposeAndMerge,
                          IF flow = "mergingForDownload" THEN "download" ELSE "upload",
                          authenticated, uploaded,
                          [blobs |-> pdfBlobs, annotations |-> pdfAnnotations,
                           selections |-> PageSelections,
                           handed |-> IF \A i \in DOMAIN AnnotatedBlobs :
                                           AnnotatedBlobs[i].ok
                                      THEN Some(HandedToMergePDFs) ELSE None])
    /\ isMerging' = FALSE
    /\ pdfBlobs' = <<>>
    /\ pdfAnnotations' = EmptyMap
    /\ flow' = "idle"
    /\ UNCHANGED <<showMergeModal, showPDFEditor, currentEditingPdfIndex>>
    /\ UNCHANGED editorVars

\* ------------------------------------------------------ observation

\* What is remembered of the handler that ran right before the last one, when it
\* called addToHistory: the annotations that were live before it.
Prior(commits, anns) == [commits |-> commits, annotations |-> anns]

NoPrior == Prior(FALSE, <<>>)

LastPrior == IF pre.commits THEN Prior(TRUE, pre.annotations) ELSE NoPrior

\* The history state the last handler started from; commits tells whether the
\* handler took a branch that calls addToHistory.
PreState(commits, prior) ==
    [history |-> history, historyIndex |-> historyIndex,
     annotations |-> annotations, commits |-> commits, prior |-> prior]

InitPre ==
    [history |-> <<(<<>>)>>, historyIndex |-> 0, annotations |-> <<>>,
     commits |-> FALSE, prior |-> NoPrior]

\* What handleMouseUp read of the gesture it ended.
MouseUpGesture ==
    [tool |-> tool, isDrawing |-> isDrawing, currentPath |-> currentPath,
     cropStart |-> cropStart, cropEnd |-> cropEnd]

\* What handleTextSubmit read of the pending label.
TextGesture ==
    [tool |-> tool, textInput |-> textInput, textPosition |-> textPosition]

NoGesture == [tool |-> "none"]

\* A handler that reads or writes the history: its name and the history state
\* it started from are remembered.
Observed(op, commits) ==
    /\ lastOp' = op
    /\ pre' = PreState(commits, LastPrior)
    /\ gesture' = NoGesture
    /\ UNCHANGED <<madeIn, saved, wish>>

\* A handler that ends a gesture: what it read of the gesture is remembered as
\* well.
ObservedGesture(op, commits, g) ==
    /\ lastOp' = op
    /\ pre' = PreState(commits, LastPrior)
    /\ gesture' = g
    /\ UNCHANGED <<madeIn, saved, wish>>

\* Any other handler: it leaves the history alone and nothing of it is remembered.
Unobserved ==
    /\ lastOp' = "other"
    /\ pre' = PreState(FALSE, NoPrior)
    /\ gesture' = NoGesture
    /\ UNCHANGED <<madeIn, saved, wish>>

NoMadeIn == [i \in 0..(NumDocs - 1) |-> {}]

\* What the handler appended to the live annotation sequence.
Created ==
    IF Len(annotations') > Len(annotations)
    THEN {annotations'[Len(annotations')]}
    ELSE {}

Attributed ==
    /\ madeIn' = [madeIn EXCEPT ![currentEditingPdfIndex] = @ \cup Created]
    /\ UNCHANGED <<lastOp, pre, gesture, saved, wish>>

\* Save & Continue on the document in the editor.
Saved ==
    /\ saved' = Append(saved, currentEditingPdfIndex)
    /\ UNCHANGED <<lastOp, pre, gesture, madeIn, wish>>

\* What a user may want when the confirm dialog of the last save opens.
Wishes == {"download", "upload", "cancel"}

\* window.confirm (page.tsx 236-238): OK answers true; the Cancel button and
\* Escape, the only ways to dismiss the dialog, answer false.  The dialog's text
\* asks for OK to download and Cancel to upload.
Confirm(w) == w = "download"

\* Save & Continue on the last document, by a user who wanted w.
Decided(w) ==
    /\ saved' = Append(saved, currentEditingPdfIndex)
    /\ wish' = w
    /\ UNCHANGED <<lastOp, pre, gesture, madeIn>>

\* The pointer with its button up.
PointerIdle == [pressed |-> FALSE, tool |-> "none", start |-> None, end |-> None]

\* The button goes down at c, with the tool that is selected.
PointerPressed(c) ==
    /\ ~pointer.pressed
    /\ pointer' = [pressed |-> TRUE, tool |-> tool, start |-> Some(c), end |-> Some(c)]

\* The pointer moves to c; a move with the button up is not part of a gesture.
PointerMoved(c) ==
    pointer' = IF pointer.pressed THEN [pointer EXCEPT !.end = Some(c)] ELSE pointer

\* The button goes up, or the pointer leaves the canvas.
PointerReleased == pointer' = PointerIdle

\* What handleMouseUp read of the gesture it ended, and what the pointer did in
\* that gesture.
PointerGesture ==
    [tool |-> tool, isDrawing |-> isDrawing, currentPath |-> currentPath,
     cropStart |-> cropStart, cropEnd |-> cropEnd, pointer |-> pointer]

\* No library function has been called.
NoCall == [fn |-> "none"]
NoResult == [ok |-> FALSE, blob |-> None, error |-> "none"]
LibraryIdle == call = NoCall /\ result = NoResult

\* ------------------------------------------------- the setlist player

\* The positions of the setlist that is played (layout.tsx 62-72: the page
\* leaves when the setlist is empty).
PlayerDocs == 0..(MaxPlayerDocs - 1)

NoLoads == [i \in PlayerDocs |-> 0]
LoadsInFlight == {i \in PlayerDocs : loads[i] > 0}

RECURSIVE SumLoads(_, _)
SumLoads(l, S) ==
    IF S = {} THEN 0
    ELSE LET i == CHOOSE j \in S : TRUE IN l[i] + SumLoads(l, S \ {i})

\* The first lines of loadPDF (layout.tsx 78-83): the call is in flight.
LoadPDF(index) ==
    /\ isLoading' = TRUE
    /\ loads' = [loads EXCEPT ![index] = @ + 1]

\* The effect on [setlist, currentIndex] (layout.tsx 72-76): it runs when the
\* render that follows a handler has another currentIndex.
CurrentIndexEffect ==
    IF currentIndex' # currentIndex
    THEN LoadPDF(currentIndex')
    ELSE UNCHANGED <<isLoading, loads>>

\* The player once the setlist is found and the effect has called loadPDF(0).
PlayerInit ==
    /\ currentIndex = 0
    /\ pdfUrl = None
    /\ isLoading = TRUE
    /\ showPlaylist = FALSE
    /\ loads = [NoLoads EXCEPT ![0] = 1]
    /\ alerted = FALSE

GoToPrevious ==
    /\ currentIndex > 0
    /\ currentIndex' = currentIndex - 1
    /\ CurrentIndexEffect
    /\ UNCHANGED <<pdfUrl, showPlaylist, alerted>>

GoToNext ==
    /\ currentIndex < MaxPlayerDocs - 1
    /\ currentIndex' = currentIndex + 1
    /\ CurrentIndexEffect
    /\ UNCHANGED <<pdfUrl, showPlaylist, alerted>>

TogglePlaylist ==
    /\ showPlaylist' = ~showPlaylist
    /\ UNCHANGED <<currentIndex, pdfUrl, isLoading, loads, alerted>>

JumpTo(index) ==
    /\ showPlaylist
    /\ currentIndex' = index
    /\ showPlaylist' = FALSE
    /\ CurrentIndexEffect
    /\ UNCHANGED <<pdfUrl, alerted>>

\* A loadPDF call in flight gets its blob (layout.tsx 115-116, 121-122).
LoadPDFSucceeded(index) ==
    /\ loads[index] > 0
    /\ pdfUrl' = Some(index)
    /\ isLoading' = FALSE
    /\ loads' = [loads EXCEPT ![index] = @ - 1]
    /\ UNCHANGED <<currentIndex, showPlaylist, alerted>>

\* A loadPDF call in flight throws (layout.tsx 117-122).
LoadPDFFailed(index) ==
    /\ loads[index] > 0
    /\ alerted' = TRUE
    /\ isLoading' = FALSE
    /\ loads' = [loads EXCEPT ![index] = @ - 1]
    /\ UNCHANGED <<currentIndex, pdfUrl, showPlaylist>>

\* -------------------------------------------- the list of documents

\* The ids of the documents the Drive browser offers.
PdfIds == {"a", "b", "c", "d", "e"}

NoListOp == [op |-> "mount", index |-> 0, direction |-> "none", from |-> <<>>]
ListOp(op, index, direction) ==
    listOp' = [op |-> op, index |-> index, direction |-> direction, from |-> pdfs]

ListInit ==
    /\ pdfs = <<>>
    /\ listOp = NoListOp

\* handleAddPDF without its look at the ids the list holds.
NeverHasPdf(id) == FALSE

\* setlist.pdfs.some((p) => p.id === pdf.id)
HasPdf(id) == \E i \in DOMAIN pdfs : pdfs[i] = id

HandleAddPDF(id) ==
    /\ pdfs' = IF ~HasPdf(id) THEN Append(pdfs, id) ELSE pdfs
    /\ ListOp("handleAddPDF", 0, "none")

HandleRemovePDF(pdfId) ==
    /\ pdfs' = SelectSeq(pdfs, LAMBDA id : id # pdfId)
    /\ ListOp("handleRemovePDF", 0, "none")

\* The positions of setlist.pdfs are 0-based; those of a sequence are 1-based.
MovePDF(index, direction) ==
    LET newIndex == IF direction = "up" THEN index - 1 ELSE index + 1
    IN  /\ pdfs' = IF newIndex >= 0 /\ newIndex < Len(pdfs)
                   THEN [pdfs EXCEPT ![index + 1] = pdfs[newIndex + 1],
                                     ![newIndex + 1] = pdfs[index + 1]]
                   ELSE pdfs
        /\ ListOp("movePDF", index, direction)

\* ---------------------------------------------- the editor session

\* One mounted editor, on the first document of an Edit & Merge session.
Init ==
    /\ EditorInit
    /\ showMergeModal = FALSE
    /\ showPDFEditor = TRUE
    /\ currentEditingPdfIndex = 0
    /\ pdfAnnotations = EmptyMap
    /\ isMerging = TRUE
    /\ pdfBlobs = AllBlobs
    /\ flow = "editing"
    /\ lastOp = "mount"
    /\ pre = InitPre
    /\ gesture = NoGesture
    /\ madeIn = NoMadeIn
    /\ saved = <<>>
    /\ wish = "none"
    /\ SelectorInit
    /\ attempt = NoAttempt
    /\ LibraryIdle
    /\ pointer = PointerIdle
    /\ renderedPath = <<>>
    /\ arrived = <<>>
    /\ PlayerInit
    /\ ListInit

LoadedPageCount == PageCount(pdfBlobs[currentEditingPdfIndex + 1])

\* The history discipline: every tool, undo and redo, on one page.
Next ==
    /\ \/ \E t \in HistoryTools : SetTool(t) /\ Unobserved
       \/ \E c \in HistoryPoints :
            HandleMouseDown(c) /\ Observed("mouseDown", MouseDownCommits)
       \/ \E c \in HistoryPoints : HandleMouseMove(c) /\ Unobserved
       \/ HandleMouseUp /\ ObservedGesture("mouseUp", MouseUpCommits, MouseUpGesture)
       \/ \E s \in TextInputs : SetTextInput(s) /\ Unobserved
       \/ CancelText /\ Unobserved
       \/ HandleTextSubmit
            /\ ObservedGesture("textSubmit", ~TextSubmitRejects, TextGesture)
       \/ Undo /\ Observed("undo", FALSE)
       \/ Redo /\ Observed("redo", FALSE)
       \/ OnDocumentLoadSuccess(LoadedPageCount) /\ Unobserved
    /\ Len(history') <= MaxHistory
    /\ Len(currentPath') <= MaxPath
    /\ UNCHANGED pageVars
    /\ UNCHANGED <<selectorVars, attempt, libVars, dragVars, playerVars, listVars>>

Spec == Init /\ [][Next]_vars

\* ---------------------------------------------------- the gestures

\* How a gesture ends: every tool and every pointer event, on one page.
GestureNext ==
    /\ \/ \E t \in Tools : SetTool(t) /\ Unobserved
       \/ \E c \in Points : HandleMouseDown(c) /\ Unobserved
       \/ \E c \in Points : HandleMouseMove(c) /\ Unobserved
       \/ HandleMouseUp /\ ObservedGesture("mouseUp", MouseUpCommits, MouseUpGesture)
       \/ \E s \in TextInputs : SetTextInput(s) /\ Unobserved
       \/ CancelText /\ Unobserved
       \/ HandleTextSubmit
            /\ ObservedGesture("textSubmit", ~TextSubmitRejects, TextGesture)
       \/ OnDocumentLoadSuccess(LoadedPageCount) /\ Unobserved
    /\ Len(history') <= GestureMaxHistory
    /\ Len(currentPath') <= MaxPath
    /\ UNCHANGED pageVars
    /\ UNCHANGED <<selectorVars, attempt, libVars, dragVars, playerVars, listVars>>

GestureSpec == Init /\ [][GestureNext]_vars

\* ------------------------------------------- the rectangle gestures

\* The tools that drag a rectangle.
CropTools == {"highlighter", "crop"}

\* Rectangle gestures on one page, pointer event by pointer event: the button
\* goes down, the pointer moves, the button goes up or the pointer leaves.
CropNext ==
    /\ \/ \E t \in CropTools : SetTool(t) /\ Unobserved /\ UNCHANGED pointer
       \/ \E c \in Points : HandleMouseDown(c) /\ Unobserved /\ PointerPressed(c)
       \/ \E c \in Points : HandleMouseMove(c) /\ Unobserved /\ PointerMoved(c)
       \/ HandleMouseUp
            /\ ObservedGesture("mouseUp", MouseUpCommits, PointerGesture)
            /\ PointerReleased
       \/ OnDocumentLoadSuccess(LoadedPageCount) /\ Unobserved /\ UNCHANGED pointer
    /\ Len(history') <= GestureMaxHistory
    /\ UNCHANGED pageVars
    /\ UNCHANGED <<selectorVars, attempt, libVars, renderedPath, arrived,
                   playerVars, listVars>>

CropSpec == Init /\ [][CropNext]_vars

\* --------------------------------------------------- the pen drag

\* A pointer-down with the pen.  mousedown is a discrete event: React renders
\* its updates before the next event is handled.
PenDown(c) ==
    /\ tool = "pen"
    /\ HandleMouseDown(c)
    /\ renderedPath' = currentPath'
    /\ arrived' = <<c>>

\* A pointer-move of a pen drag.  mousemove is a continuous event: its update is
\* rendered later, and until then the handler on the canvas is the one of the
\* last render, whose currentPath is renderedPath:
\* setCurrentPath([...currentPath, coords]).
PenMove(c) ==
    /\ CanvasReachable
    /\ isDrawing
    /\ tool = "pen"
    /\ currentPath' = Append(renderedPath, c)
    /\ arrived' = Append(arrived, c)
    /\ UNCHANGED <<numPages, pageNumber, tool, annotations, history, historyIndex,
                   isDrawing, textInput, textPosition, cropStart, cropEnd,
                   docLoaded, renderedPath>>

\* React renders the pending update of currentPath.
Render ==
    /\ renderedPath # currentPath
    /\ renderedPath' = currentPath
    /\ UNCHANGED <<editorVars, arrived>>

\* The pointer-release that ends the drag, handled once the drag is rendered.
PenUp ==
    /\ renderedPath = currentPath
    /\ HandleMouseUp
    /\ renderedPath' = currentPath'
    /\ UNCHANGED arrived

\* Pen drags on one page, event by event, with React's renders in between.
PenNext ==
    /\ \/ SetTool("pen") /\ Unobserved /\ UNCHANGED <<renderedPath, arrived>>
       \/ \E c \in Points : PenDown(c) /\ Unobserved
       \/ \E c \in Points : PenMove(c) /\ Unobserved
       \/ Render /\ Unobserved
       \/ PenUp /\ ObservedGesture("mouseUp", MouseUpCommits, MouseUpGesture)
       \/ OnDocumentLoadSuccess(LoadedPageCount) /\ Unobserved
            /\ UNCHANGED <<renderedPath, arrived>>
    /\ Len(history') <= GestureMaxHistory
    /\ Len(arrived') <= MaxDrag
    /\ UNCHANGED pageVars
    /\ UNCHANGED <<selectorVars, attempt, libVars, pointer, playerVars, listVars>>

PenSpec == Init /\ [][PenNext]_vars

\* ------------------------------------------- the Edit & Merge session

\* The setlist page after construction; no editor is mounted yet.
FlowInit ==
    /\ EditorInit
    /\ PageInit
    /\ lastOp = "mount"
    /\ pre = InitPre
    /\ gesture = NoGesture
    /\ madeIn = NoMadeIn
    /\ saved = <<>>
    /\ wish = "none"
    /\ SelectorInit
    /\ attempt = NoAttempt
    /\ LibraryIdle
    /\ pointer = PointerIdle
    /\ renderedPath = <<>>
    /\ arrived = <<>>
    /\ PlayerInit
    /\ ListInit

\* A new Edit & Merge session, or the end of one: nothing is attributed.
SessionBoundary ==
    /\ madeIn' = NoMadeIn
    /\ saved' = <<>>
    /\ wish' = "none"
    /\ UNCHANGED <<lastOp, pre, gesture>>

\* An event of the mounted editor; the page's own state is left alone.
EditorEvent ==
    /\ EditorMounted
    /\ UNCHANGED pageVars

\* The handlers of the page and of the editor it hosts, but for the one that
\* settles a merge.
FlowStep ==
    \/ OpenMergeModal /\ UNCHANGED obsVars
    \/ CloseMergeModal /\ UNCHANGED obsVars
    \/ HandleEditAndMerge /\ UNCHANGED obsVars
    \/ EditLoadSucceeded /\ SessionBoundary
    \/ EditLoadFailed /\ UNCHANGED obsVars
    \/ HandleAnnotationSaveNext /\ Saved
    \/ \E w \in Wishes : HandleAnnotationSaveLast(Confirm(w)) /\ Decided(w)
    \/ EditorCancel /\ SessionBoundary
    \/ EditorEvent /\ OnDocumentLoadSuccess(LoadedPageCount) /\ UNCHANGED obsVars
    \/ EditorEvent /\ PrevPage /\ UNCHANGED obsVars
    \/ EditorEvent /\ NextPage /\ UNCHANGED obsVars
    \/ \E t \in FlowTools : EditorEvent /\ SetTool(t) /\ UNCHANGED obsVars
    \/ \E c \in FlowPoints : EditorEvent /\ HandleMouseDown(c) /\ Attributed
    \/ \E c \in FlowPoints : EditorEvent /\ HandleMouseMove(c) /\ UNCHANGED obsVars
    \/ EditorEvent /\ HandleMouseUp /\ Attributed
    \/ EditorEvent /\ Undo /\ UNCHANGED obsVars
    \/ EditorEvent /\ Redo /\ UNCHANGED obsVars

\* The page and the editor it hosts, over the documents of the setlist.  Drive
\* may or may not be signed in to, and an upload may or may not succeed.
FlowNext ==
    /\ \/ FlowStep /\ attempt' = NoAttempt
       \/ \E authenticated, uploaded \in BOOLEAN :
            FinishMergeWithAnnotations(authenticated, uploaded) /\ SessionBoundary
    /\ Len(history') <= FlowMaxHistory
    /\ Len(currentPath') <= MaxPath
    /\ UNCHANGED <<selectorVars, libVars, dragVars, playerVars, listVars>>

FlowSpec == FlowInit /\ [][FlowNext]_vars

\* ------------------------------------------- the Select Pages session

\* The sources the selector shows: pdfs.map((pdf, pdfIndex) => ...).
SelectorSources == 0..(Len(SelectBlobs) - 1)

\* Page indices a toggle button may carry.
SelectorPages == 0..3

\* The handlers of the page and of the page selector it hosts, but for the one
\* that settles a merge.
SelectStep ==
    \/ OpenMergeModal /\ UNCHANGED selectorVars
    \/ CloseMergeModal /\ UNCHANGED selectorVars
    \/ HandleSelectPages
    \/ SelectLoadSucceeded
    \/ SelectLoadFailed
    \/ LoadPageCountsSucceeded
    \/ LoadPageCountsFailed
    \/ \E i \in SelectorSources, p \in SelectorPages : TogglePage(i, p)
    \/ \E i \in SelectorSources : SelectAll(i)
    \/ \E i \in SelectorSources : SelectNone(i)
    \/ \E i \in SelectorSources : SelectFirst(i)
    \/ \E i \in SelectorSources : SelectOdd(i)
    \/ \E i \in SelectorSources : SelectEven(i)
    \/ \E confirmed \in BOOLEAN : HandleConfirm(confirmed)
    \/ SelectorCancel

\* The page and the page selector it hosts, over the documents of the setlist.
SelectNext ==
    /\ \/ SelectStep /\ attempt' = NoAttempt
       \/ \E authenticated, uploaded \in BOOLEAN :
            PageSelectionMergeSettles(authenticated, uploaded)
    /\ UNCHANGED <<editorVars, obsVars, libVars, dragVars, playerVars, listVars>>

SelectSpec == FlowInit /\ [][SelectNext]_vars

\* ------------------------------------------------ the library calls

\* All sequences over S of length at most n.
SeqsUpTo(S, n) == UNION {[1..k -> S] : k \in 0..n}

\* Source documents handed to the library: A has 3 pages, B has 2.
BlobA == MakeBlob("A", 3)
BlobB == MakeBlob("B", 2)
LibBlobs == {BlobA, BlobB}

\* Explicit page lists: descending, single, ascending, and one no source has.
LibPageLists == {<<2, 0>>, <<0>>, <<0, 1>>, <<3>>}

LibSelections ==
    {[pdfIndex |-> i, pageNumbers |-> l] : i \in {0, 1}, l \in LibPageLists}

\* Annotations handed to applyAnnotationsToPDF for the 3-page document: five on
\* pages it has, one past its last page and one before its first.
LibAnnotations ==
    {[type |-> "pen", pageNumber |-> 0, points |-> <<Pt(0, 0), Pt(1, 1)>>,
      color |-> DefaultColor, width |-> DefaultPenWidth],
     [type |-> "crop", pageNumber |-> 1, x |-> 5, y |-> 30, width |-> 40,
      height |-> 60],
     [type |-> "highlight", pageNumber |-> 0, x |-> 10, y |-> 20, width |-> 100,
      height |-> 50, color |-> HighlightColor],
     [type |-> "highlight", pageNumber |-> 1, x |-> 0, y |-> 0, width |-> 1,
      height |-> 1, color |-> HighlightColor],
     [type |-> "text", pageNumber |-> 0, x |-> 0, y |-> 0, text |-> <<"a">>,
      fontSize |-> DefaultFontSize, color |-> DefaultColor],
     [type |-> "highlight", pageNumber |-> 3, x |-> 0, y |-> 0, width |-> 1,
      height |-> 1, color |-> HighlightColor],
     [type |-> "highlight", pageNumber |-> -1, x |-> 0, y |-> 0, width |-> 1,
      height |-> 1, color |-> HighlightColor]}

CallMergePDFs ==
    \E blobs \in SeqsUpTo(LibBlobs, MaxSources) :
        /\ call' = [fn |-> "mergePDFs", blobs |-> blobs]
        /\ result' = MergePDFs(blobs)

CallMergePDFsWithSelection ==
    \E sels \in SeqsUpTo(LibSelections, MaxSelections) :
        /\ call' = [fn |-> "mergePDFsWithSelection", blobs |-> <<BlobA, BlobB>>,
                    selections |-> sels]
        /\ result' = MergePDFsWithSelection(<<BlobA, BlobB>>, sels)

CallApplyAnnotationsToPDF ==
    \E anns \in SeqsUpTo(LibAnnotations, MaxAnnotations) :
        /\ call' = [fn |-> "applyAnnotationsToPDF", blob |-> BlobA,
                    annotations |-> anns]
        /\ result' = ApplyAnnotationsToPDF(BlobA, anns)

\* The library functions, called one after the other on every request.
LibNext ==
    /\ \/ CallMergePDFs
       \/ CallMergePDFsWithSelection
       \/ CallApplyAnnotationsToPDF
    /\ UNCHANGED <<editorVars, pageVars, obsVars, selectorVars, attempt, dragVars,
                   playerVars, listVars>>

LibSpec == FlowInit /\ [][LibNext]_vars

\* ------------------------------------------------ the setlist player

\* The player's handlers and the settling of its loads, in any order.
PlayerNext ==
    /\ \/ GoToPrevious
       \/ GoToNext
       \/ TogglePlaylist
       \/ \E index \in PlayerDocs : JumpTo(index)
       \/ \E index \in PlayerDocs : LoadPDFSucceeded(index)
       \/ \E index \in PlayerDocs : LoadPDFFailed(index)
    /\ SumLoads(loads', PlayerDocs) <= MaxLoads
    /\ UNCHANGED <<editorVars, pageVars, obsVars, selectorVars, attempt, libVars,
                   dragVars, listVars>>

PlayerSpec == FlowInit /\ [][PlayerNext]_vars

\* ------------------------------------------- the list of documents

\* The rows of the list and the Drive browser beside it.
ListNext ==
    /\ \/ \E id \in PdfIds : HandleAddPDF(id)
       \/ \E i \in DOMAIN pdfs : HandleRemovePDF(pdfs[i])
       \/ \E i \in DOMAIN pdfs : \E d \in {"up", "down"} : MovePDF(i - 1, d)
    /\ UNCHANGED <<editorVars, pageVars, obsVars, selectorVars, attempt, libVars,
                   dragVars, playerVars>>

ListSpec == FlowInit /\ [][ListNext]_vars

\* ------------------------------------------------------------ claims

\* C1: a handler that called addToHistory leaves the history equal to the
\* snapshots at positions 0..cursor it started from followed by the new live
\* annotations, with the cursor on that last position; nothing is left for redo.
C1_CommitTruncatesAndAppends ==
    pre.commits =>
        /\ history = Append(SubSeq(pre.history, 1, pre.historyIndex + 1), annotations)
        /\ historyIndex = Len(history) - 1
        /\ RedoOf(HistoryState) = HistoryState

\* C1 happens: a commit made while snapshots lay after the cursor.
C1_CommitDiscardedFuture ==
    /\ pre.commits
    /\ pre.historyIndex < Len(pre.history) - 1
    /\ Len(history) = pre.historyIndex + 2

\* C2: an undo that directly follows a commit makes the live annotations equal
\* to the annotations that were live before that commit.
C2_UndoRestoresBeforeCommit ==
    (lastOp = "undo" /\ pre.prior.commits) => annotations = pre.prior.annotations

\* C2 happens: an undo took back a commit that had changed the live annotations.
C2_UndoTookBackCommit ==
    /\ lastOp = "undo"
    /\ pre.prior.commits
    /\ pre.annotations # pre.prior.annotations
    /\ annotations = pre.prior.annotations

\* C3: in every state with cursor > 0, redo applied to the result of undo
\* gives back the same history, cursor and live annotations.
C3_RedoAfterUndoRestores ==
    historyIndex > 0 => RedoOf(UndoOf(HistoryState)) = HistoryState

\* C3 happens: a redo moved the cursor forward onto a snapshot with an
\* annotation, in a state where undo changes the live annotations.
C3_RedoMovedForward ==
    /\ lastOp = "redo"
    /\ historyIndex = pre.historyIndex + 1
    /\ UndoOf(HistoryState).annotations # annotations

\* C6: undo with the cursor at 0 and redo with the cursor on the last snapshot
\* change neither the history, the cursor nor the live annotations.
C6_UndoRedoNoOpAtBoundaries ==
    (\/ lastOp = "undo" /\ pre.historyIndex = 0
     \/ lastOp = "redo" /\ pre.historyIndex = Len(pre.history) - 1)
        => /\ history = pre.history
           /\ historyIndex = pre.historyIndex
           /\ annotations = pre.annotations

\* C6 happens: redo was called on the last snapshot of a history that has
\* more than one snapshot.
C6_RedoAtLastSnapshot ==
    /\ lastOp = "redo"
    /\ pre.historyIndex = Len(pre.history) - 1
    /\ pre.historyIndex > 0

\* C7: undo and redo leave the sequence of history snapshots as it was.
C7_UndoRedoKeepSnapshots ==
    lastOp \in {"undo", "redo"} => history = pre.history

\* C7 happens: an undo moved the cursor off a snapshot that is still there.
C7_UndoMovedCursor ==
    /\ lastOp = "undo"
    /\ historyIndex = pre.historyIndex - 1
    /\ Len(history) > historyIndex + 1

\* C8: a pointer release that ends a pen gesture of fewer than 2 points adds
\* no annotation and leaves the history and its cursor unchanged.
C8_ShortPenStrokeIgnored ==
    (lastOp = "mouseUp" /\ gesture.tool = "pen" /\ Len(gesture.currentPath) < 2)
        => /\ history = pre.history
           /\ historyIndex = pre.historyIndex
           /\ annotations = pre.annotations

\* C8 happens: the pointer went down with the pen and was released without a
\* move in between.
C8_PenReleasedAfterDownOnly ==
    /\ lastOp = "mouseUp"
    /\ gesture.tool = "pen"
    /\ gesture.isDrawing
    /\ Len(gesture.currentPath) = 1

\* C9: a pointer release that ends a highlight or crop gesture whose start and
\* end span a rectangle of zero width or zero height commits no annotation and
\* adds no history step.
C9_ZeroAreaRectangleIgnored ==
    (/\ lastOp = "mouseUp"
     /\ gesture.tool \in {"highlighter", "crop"}
     /\ gesture.cropStart # None
     /\ gesture.cropEnd # None
     /\ \/ RectWidth(gesture.cropStart[1], gesture.cropEnd[1]) = 0
        \/ RectHeight(gesture.cropStart[1], gesture.cropEnd[1]) = 0)
        => /\ history = pre.history
           /\ historyIndex = pre.historyIndex
           /\ annotations = pre.annotations

\* C10: a text submit with an empty or whitespace-only input, or with no
\* pending anchor, changes neither the history, the cursor nor the live
\* annotations.
C10_BlankTextIgnored ==
    (/\ lastOp = "textSubmit"
     /\ (gesture.textPosition = None \/ Trim(gesture.textInput) = <<>>))
        => /\ history = pre.history
           /\ historyIndex = pre.historyIndex
           /\ annotations = pre.annotations

\* C10 happens: a label of whitespace only was submitted at a pending anchor.
C10_WhitespaceSubmitted ==
    /\ lastOp = "textSubmit"
    /\ gesture.textPosition # None
    /\ gesture.textInput # <<>>
    /\ Trim(gesture.textInput) = <<>>

\* C4: the list saved for a source document holds only annotations that were
\* created while that document was the one in the editor.
C4_SavedListHoldsOwnAnnotations ==
    \A i \in DOMAIN pdfAnnotations :
        \A k \in DOMAIN pdfAnnotations[i] : pdfAnnotations[i][k] \in madeIn[i]

\* C5: every annotation of every history snapshot and of every saved list has a
\* pageNumber that is a zero-based page index of the document it belongs to.
C5_PageNumbersValid ==
    /\ \A i \in DOMAIN pdfAnnotations :
          \A k \in DOMAIN pdfAnnotations[i] :
             /\ 0 <= pdfAnnotations[i][k].pageNumber
             /\ pdfAnnotations[i][k].pageNumber < PageCount(i)
    /\ EditorMounted =>
          \A h \in DOMAIN history :
             \A k \in DOMAIN history[h] :
                /\ 0 <= history[h][k].pageNumber
                /\ history[h][k].pageNumber < LoadedPageCount

\* The number of pages of the sources before the i-th of a request.
RECURSIVE PagesBefore(_, _)
PagesBefore(blobs, i) ==
    IF i <= 1 THEN 0 ELSE PagesBefore(blobs, i - 1) + Len(blobs[i - 1].pages)

\* C11: mergePDFs on two or more sources returns a document whose pages are the
\* pages of the first source in natural order, then those of the second, and so
\* on: page p of source i sits at position (pages before source i) + p, and
\* there are no other pages.
C11_MergeConcatenatesInOrder ==
    (call.fn = "mergePDFs" /\ Len(call.blobs) >= 2) =>
        /\ result.ok
        /\ Len(result.blob[1].pages) = PagesBefore(call.blobs, Len(call.blobs) + 1)
        /\ \A i \in DOMAIN call.blobs :
              \A p \in DOMAIN call.blobs[i].pages :
                 /\ result.blob[1].pages[PagesBefore(call.blobs, i) + p].src
                        = call.blobs[i].id
                 /\ result.blob[1].pages[PagesBefore(call.blobs, i) + p].index
                        = p - 1

\* C11 happens: A (3 pages) and B (2 pages) were merged into [A0, A1, A2, B0, B1].
C11_MergedAThenB ==
    /\ call.fn = "mergePDFs"
    /\ call.blobs = <<BlobA, BlobB>>
    /\ result.ok
    /\ result.blob[1].pages =
          <<Page("A", 0), Page("A", 1), Page("A", 2), Page("B", 0), Page("B", 1)>>

\* The number of pages listed by the entries before the i-th of a request.
RECURSIVE ListedBefore(_, _)
ListedBefore(sels, i) ==
    IF i <= 1 THEN 0 ELSE ListedBefore(sels, i - 1) + Len(sels[i - 1].pageNumbers)

\* C12: a merge with explicit page lists that are all in range copies, entry by
\* entry, the listed pages in the listed order.
C12_FilterOrderRespected ==
    (/\ call.fn = "mergePDFsWithSelection"
     /\ Len(call.selections) > 0
     /\ \A i \in DOMAIN call.selections :
           SelectionInRange(call.blobs, call.selections[i]))
        => /\ result.ok
           /\ Len(result.blob[1].pages)
                 = ListedBefore(call.selections, Len(call.selections) + 1)
           /\ \A i \in DOMAIN call.selections :
                 \A k \in DOMAIN call.selections[i].pageNumbers :
                    LET out == result.blob[1].pages[ListedBefore(call.selections, i) + k]
                    IN /\ out.src = call.blobs[call.selections[i].pdfIndex + 1].id
                       /\ out.index = call.selections[i].pageNumbers[k]

\* C12 happens: the list [2, 0] on the 3-page source gave [page 2, page 0].
C12_MergedTwoThenZero ==
    /\ call.fn = "mergePDFsWithSelection"
    /\ call.selections = <<[pdfIndex |-> 0, pageNumbers |-> <<2, 0>>]>>
    /\ result.ok
    /\ result.blob[1].pages = <<Page("A", 2), Page("A", 0)>>

\* C16: applyAnnotationsToPDF given an annotation whose pageNumber the document
\* does not have throws and returns no document.
C16_OutOfRangeAnnotationFails ==
    (/\ call.fn = "applyAnnotationsToPDF"
     /\ \E k \in DOMAIN call.annotations :
           \/ call.annotations[k].pageNumber < 0
           \/ call.annotations[k].pageNumber >= Len(call.blob.pages))
        => /\ ~result.ok
           /\ result.blob = None

\* C16 happens: an annotation on page 0 was followed by one past the last page.
C16_FailedAfterValidPage ==
    /\ call.fn = "applyAnnotationsToPDF"
    /\ Len(call.annotations) = 2
    /\ call.annotations[1].pageNumber = 0
    /\ call.annotations[2].pageNumber = 3
    /\ ~result.ok

\* C17: a merge whose explicit page lists hold an index its source does not have
\* throws and returns no document, not even the pages copied so far.
C17_InvalidIndexFailsWholeMerge ==
    (/\ call.fn = "mergePDFsWithSelection"
     /\ \E i \in DOMAIN call.selections :
           ~SelectionInRange(call.blobs, call.selections[i]))
        => /\ ~result.ok
           /\ result.blob = None

\* C17 happens: a valid entry was followed by the list [2, 0] on the 2-page
\* source.
C17_FailedAfterValidEntry ==
    /\ call.fn = "mergePDFsWithSelection"
    /\ call.selections = <<[pdfIndex |-> 0, pageNumbers |-> <<0>>],
                           [pdfIndex |-> 1, pageNumbers |-> <<2, 0>>]>>
    /\ ~result.ok

\* C18: mergePDFs with exactly one source returns that very blob.
C18_SingleSourceReturnedUnchanged ==
    (call.fn = "mergePDFs" /\ Len(call.blobs) = 1) =>
        /\ result.ok
        /\ result.blob = Some(call.blobs[1])

\* C18 happens: the 3-page source was merged alone.
C18_MergedSingleSource ==
    /\ call.fn = "mergePDFs"
    /\ call.blobs = <<BlobA>>
    /\ result.blob = <<BlobA>>

\* C19: mergePDFs with zero sources throws and returns no blob.
C19_EmptyMergeFails ==
    (call.fn = "mergePDFs" /\ Len(call.blobs) = 0) =>
        /\ ~result.ok
        /\ result.blob = None
        /\ result.error # "none"

\* C19 happens: mergePDFs was called with an empty list.
C19_MergedNothing ==
    /\ call.fn = "mergePDFs"
    /\ call.blobs = <<>>
    /\ result.error = "No PDFs to merge"

\* C13: the list the page selector hands to the merge names its sources in
\* ascending source order and, per source, its pages in ascending page order.
C13_EmittedListAscending ==
    \A e \in DOMAIN request.selections :
        /\ e > 1 => request.selections[e - 1].pdfIndex < request.selections[e].pdfIndex
        /\ \A k \in 1..(Len(request.selections[e].pageNumbers) - 1) :
              request.selections[e].pageNumbers[k]
                  < request.selections[e].pageNumbers[k + 1]

\* C14: when composition or merge has failed, the blobs that were staged when
\* the attempt started are still staged.
C14_BlobsStagedAfterFailure ==
    (attempt.status = "failed" /\ attempt.cause = "merge") => pdfBlobs = attempt.blobs

\* C15: when composition or merge has failed, the annotations collected per
\* document and the page selections are what they were when the attempt started.
C15_StateKeptAfterFailure ==
    (attempt.status = "failed" /\ attempt.cause = "merge") =>
        /\ pdfAnnotations = attempt.annotations
        /\ PageSelections = attempt.selections

\* C20: a step of the page selector that issues a merge request issues one with
\* an entry for exactly the sources that have a selected page, none of them with
\* an empty page list; with no page selected anywhere it issues no request.
C20_RequestOmitsEmptySources ==
    [][(SelectorReady /\ request' # request) =>
          /\ Len(request'.selections) > 0
          /\ \A e \in DOMAIN request'.selections :
                Len(request'.selections[e].pageNumbers) > 0
          /\ {request'.selections[e].pdfIndex : e \in DOMAIN request'.selections}
                = {selections[e].pdfIndex :
                      e \in {d \in DOMAIN selections : Len(selections[d].pages) > 0}}
          /\ Len(request'.selections)
                = Cardinality({d \in DOMAIN selections : Len(selections[d].pages) > 0})
      ]_vars

\* C20 happens: a request is in flight that names the second source only, the
\* first one having no page selected.
C20_RequestDroppedSource ==
    /\ flow = "mergingSelection"
    /\ Len(request.selections) = 1
    /\ request.selections[1].pdfIndex = 1

\* The pages selected for a source, as a set of indices.
SelectedPages(pdfIndex) ==
    {MapGet(selections, pdfIndex)[k] : k \in DOMAIN MapGet(selections, pdfIndex)}

\* C21: right after selectOdd on source i, the selection of i is exactly the
\* indices 0, 2, 4, ... below pageCounts[i], and right after selectEven exactly
\* the indices 1, 3, 5, ... below it, each index once; on the 4-page document
\* these are {0, 2} and {1, 3}.
C21_OddEvenSelectByIndexParity ==
    /\ selectorOp.op = "selectOdd" =>
          /\ SelectedPages(selectorOp.pdfIndex)
                = {i \in 0..(PageCountAt(selectorOp.pdfIndex) - 1) : i % 2 = 0}
          /\ Len(MapGet(selections, selectorOp.pdfIndex))
                = Cardinality(SelectedPages(selectorOp.pdfIndex))
          /\ PageCountAt(selectorOp.pdfIndex) = 4 =>
                SelectedPages(selectorOp.pdfIndex) = {0, 2}
    /\ selectorOp.op = "selectEven" =>
          /\ SelectedPages(selectorOp.pdfIndex)
                = {i \in 0..(PageCountAt(selectorOp.pdfIndex) - 1) : i % 2 = 1}
          /\ Len(MapGet(selections, selectorOp.pdfIndex))
                = Cardinality(SelectedPages(selectorOp.pdfIndex))
          /\ PageCountAt(selectorOp.pdfIndex) = 4 =>
                SelectedPages(selectorOp.pdfIndex) = {1, 3}

\* C21 happens: selectOdd has just run on the 4-page document.
C21_SelectedOddOfFourPages ==
    /\ selectorOp = SelectorOp("selectOdd", 0)
    /\ PageCountAt(0) = 4
    /\ MapGet(selections, 0) = <<0, 2>>

\* C22: right after loadPageCounts has resolved, the selections hold one entry
\* per source and the entry of source i holds exactly the indices
\* 0 .. pageCounts[i] - 1.
C22_InitialSelectionIsAllPages ==
    selectorOp.op = "loadPageCounts" =>
        /\ Len(pageCounts) = Len(pdfBlobs)
        /\ Len(selections) = Len(pageCounts)
        /\ \A i \in DOMAIN pageCounts :
              /\ selections[i].pdfIndex = i - 1
              /\ SelectedPages(i - 1) = 0..(pageCounts[i] - 1)
              /\ Len(selections[i].pages) = pageCounts[i]

\* C22 happens: the page counts 4, 1 and 0 have just become known.
C22_PageCountsBecameKnown ==
    /\ selectorOp.op = "loadPageCounts"
    /\ pageCounts = SelectDocPages
    /\ SelectedPages(0) = {0, 1, 2, 3}
    /\ SelectedPages(1) = {0}
    /\ SelectedPages(2) = {}

\* The pages of the document the last call returned.
ResultPages == result.blob[1].pages

\* The last crop annotation of a page in an annotation list, if any.
LastCrop(anns, p) ==
    LET crops == SelectSeq(anns, LAMBDA a : a.type = "crop" /\ a.pageNumber = p) IN
    IF crops = <<>> THEN None ELSE Some(crops[Len(crops)])

\* C23: applyAnnotationsToPDF draws the rectangle of a highlight (x, y, w, h) on
\* a page of height H at origin (x, H - y - h) with size (w, h), and these are
\* the only rectangles it draws; the crop box of a page is the rectangle of its
\* last crop annotation, moved the same way.  A highlight at (10, 20, 100, 50)
\* on a page of height 300 has document-space y-origin 230.
C23_RectangleFlippedToDocumentSpace ==
    (call.fn = "applyAnnotationsToPDF" /\ result.ok) =>
        \A p \in DOMAIN ResultPages :
            LET page == ResultPages[p]
                rects == SelectSeq(page.marks, LAMBDA m : m.op = "rectangle")
                highlights == SelectSeq(call.annotations,
                                  LAMBDA a : a.type = "highlight"
                                             /\ a.pageNumber = p - 1)
                crop == LastCrop(call.annotations, p - 1)
            IN  /\ Len(rects) = Len(highlights)
                /\ \A k \in DOMAIN highlights :
                      /\ rects[k].x = highlights[k].x
                      /\ rects[k].y = page.height - highlights[k].y - highlights[k].height
                      /\ rects[k].width = highlights[k].width
                      /\ rects[k].height = highlights[k].height
                      /\ (page.height = 300 /\ highlights[k].y = 20
                          /\ highlights[k].height = 50) => rects[k].y = 230
                /\ crop = None => page.cropBox = None
                /\ crop # None =>
                      page.cropBox = Some([x |-> crop[1].x,
                                           y |-> page.height - crop[1].y - crop[1].height,
                                           width |-> crop[1].width,
                                           height |-> crop[1].height])

\* C23 happens: the highlight at (10, 20, 100, 50) and the crop were applied to
\* pages of height 300.
C23_HighlightAndCropApplied ==
    /\ call.fn = "applyAnnotationsToPDF"
    /\ result.ok
    /\ \E k \in DOMAIN call.annotations :
          /\ call.annotations[k].type = "highlight"
          /\ call.annotations[k].x = 10
          /\ call.annotations[k].y = 20
    /\ \E k \in DOMAIN call.annotations : call.annotations[k].type = "crop"
    /\ \E m \in DOMAIN ResultPages[1].marks :
          /\ ResultPages[1].marks[m].op = "rectangle"
          /\ ResultPages[1].marks[m].y = 230
    /\ ResultPages[2].cropBox # None
    /\ ResultPages[2].cropBox[1].y = 210

\* What the annotations of page p draw on an empty page, one after the other in
\* the order of the list.
RECURSIVE DrawnInListOrder(_, _)
DrawnInListOrder(anns, p) ==
    IF anns = <<>>
    THEN <<>>
    ELSE (IF Head(anns).pageNumber = p
          THEN DrawAnnotation(Page("blank", p), Head(anns)).marks
          ELSE <<>>)
         \o DrawnInListOrder(Tail(anns), p)

\* C24: on every page of the document applyAnnotationsToPDF returns, what was
\* drawn is what the annotations of that page draw one after the other in the
\* order they have in the input list, a later one on top of an earlier one.
C24_PageAnnotationsKeepListOrder ==
    (call.fn = "applyAnnotationsToPDF" /\ result.ok) =>
        \A p \in DOMAIN ResultPages :
            ResultPages[p].marks = DrawnInListOrder(call.annotations, p - 1)

\* C24 happens: two annotations of page 0 were applied with one of page 1
\* between them.
C24_AppliedAroundOtherPage ==
    /\ call.fn = "applyAnnotationsToPDF"
    /\ result.ok
    /\ Len(call.annotations) = 3
    /\ call.annotations[1].type = "pen"
    /\ call.annotations[1].pageNumber = 0
    /\ call.annotations[2].pageNumber = 1
    /\ call.annotations[3].type = "text"
    /\ call.annotations[3].pageNumber = 0
    /\ Len(ResultPages[1].marks) = 2
    /\ ResultPages[1].marks[1].op = "line"
    /\ ResultPages[1].marks[2].op = "text"

\* C25: a merge that has settled handed its output to at most one of the local
\* download and the Drive upload, and to neither when composition or merge
\* failed.
C25_AtMostOneSink ==
    attempt.status # "none" =>
        /\ Cardinality(attempt.sinks) <= 1
        /\ attempt.cause = "merge" => attempt.sinks = {}

\* C25 happens: an Edit & Merge session ended with an upload to Drive.
C25_HandedToUpload ==
    /\ attempt.status = "merged"
    /\ attempt.sinks = {"upload"}
    /\ attempt.output # None

\* C26: a pointer release that ends a crop gesture from a to b spanning a
\* non-zero area has committed exactly one annotation, the crop of the current
\* page with the rectangle spanned by a and b.
C26_CropGestureCommitsItsRectangle ==
    (/\ lastOp = "mouseUp"
     /\ gesture.tool = "crop"
     /\ gesture.pointer.pressed
     /\ gesture.pointer.tool = "crop"
     /\ RectWidth(gesture.pointer.start[1], gesture.pointer.end[1]) > 0
     /\ RectHeight(gesture.pointer.start[1], gesture.pointer.end[1]) > 0)
        => /\ annotations = Append(pre.annotations,
                                   CropAnnotation(gesture.pointer.start[1],
                                                  gesture.pointer.end[1]))
           /\ history = Append(SubSeq(pre.history, 1, pre.historyIndex + 1),
                               annotations)
           /\ historyIndex = Len(history) - 1

\* C27: the cursor always points at a snapshot of the history, the first
\* snapshot is the empty annotation sequence, and the live annotations, which
\* Save hands to onSave, equal the snapshot under the cursor.
C27_LiveAnnotationsAreCursorSnapshot ==
    /\ 0 <= historyIndex
    /\ historyIndex < Len(history)
    /\ history[1] = <<>>
    /\ annotations = history[historyIndex + 1]

\* C27 happens: after commits, one of them by the eraser, an undo and a redo,
\* the cursor is back on a snapshot that is not empty, with an undone one after it.
C27_RedoneBelowTop ==
    /\ lastOp = "redo"
    /\ pre.historyIndex = 0
    /\ historyIndex = 1
    /\ Len(history) = 3
    /\ annotations # <<>>
    /\ history[3] = history[2]

\* C28: whenever no load, composition, merge or upload is in flight and neither
\* the editor nor the page selector is open, isMerging is false.
C28_IdleMeansNotMerging ==
    (flow = "idle" /\ ~EditorMounted /\ ~showPageSelector) => ~isMerging

C30_DownAndMoveLeaveHistoryAlone ==
    [][\A c \in Points :
          ((HandleMouseDown(c) /\ tool # "eraser") \/ HandleMouseMove(c))
              => UNCHANGED <<history, historyIndex, annotations>>]_vars

\* C30 happens: a highlight rectangle has been dragged and is shown as a
\* preview, and a pen stroke before it was committed at its release only.
C30_PreviewNotCommitted ==
    /\ tool = "highlighter"
    /\ isDrawing
    /\ cropStart # None
    /\ cropEnd # None
    /\ Len(history) = 2
    /\ Len(annotations) = 1
    /\ annotations[1].type = "pen"

\* The documents 0 .. n - 1 in source order.
FirstDocuments(n) == [k \in 1..n |-> k - 1]

\* Composition and merge of an Edit & Merge session are in flight.
MergingAnnotated == flow \in {"mergingForDownload", "mergingForUpload"}

\* C31: while the editor of an Edit & Merge session shows document i, the
\* documents saved so far are 0, 1, ..., i - 1, each once and in this order;
\* while composition and merge are in flight they are 0, 1, ..., N - 1.
C31_DocumentsSavedInSourceOrder ==
    /\ (flow = "editing" /\ EditorMounted) =>
          /\ saved = FirstDocuments(currentEditingPdfIndex)
          /\ currentEditingPdfIndex < NumDocs
    /\ MergingAnnotated => saved = FirstDocuments(NumDocs)
    /\ saved # <<>> => (flow = "editing" \/ MergingAnnotated)

\* C31 happens: both documents were saved and the merge is in flight.
C31_MergeStartedAfterLastSave ==
    /\ MergingAnnotated
    /\ saved = <<0, 1>>
    /\ ~showPDFEditor

\* C32: the stroke a pen drag commits at its release consists of the point of
\* the pointer-down followed by the point of every pointer-move of the drag, in
\* the order they arrived.
C32_StrokeHoldsEveryPoint ==
    (/\ lastOp = "mouseUp"
     /\ gesture.tool = "pen"
     /\ gesture.isDrawing
     /\ Len(arrived) > 1)
        => annotations = Append(pre.annotations, PenAnnotation(arrived))

\* C33: once every loadPDF call of the player has completed, the document the
\* player displays is the one at currentIndex, in whatever order the calls
\* completed.
C33_DisplayedDocumentIsCurrent ==
    (LoadsInFlight = {} /\ ~alerted) => pdfUrl = Some(currentIndex)

\* The ids of pdfs are pairwise different.
NoDuplicateIds ==
    \A i, j \in DOMAIN pdfs : pdfs[i] = pdfs[j] => i = j

\* The list after the swap of the 0-based positions index and index + 1.
SwappedAt(list, index) ==
    [list EXCEPT ![index + 1] = list[index + 2], ![index + 2] = list[index + 1]]

\* C38: after every handleAddPDF, handleRemovePDF and movePDF no two entries
\* of the list share an id; movePDF swaps the entry with its neighbour in the
\* direction asked for and changes nothing else, or changes nothing at all when
\* that neighbour is beyond an end of the list.
C38_IdsUniqueAndMoveSwapsNeighbours ==
    /\ NoDuplicateIds
    /\ listOp.op = "movePDF" =>
          LET from == listOp.from
              index == listOp.index
          IN  /\ listOp.direction = "up" =>
                    pdfs = IF index = 0 THEN from ELSE SwappedAt(from, index - 1)
              /\ listOp.direction = "down" =>
                    pdfs = IF index = Len(from) - 1 THEN from
                           ELSE SwappedAt(from, index)

\* C38 happens: a full list, no id twice, whose last handler moved an entry
\* of the middle up.
C38_MiddleEntryMovedUp ==
    /\ listOp.op = "movePDF"
    /\ listOp.direction = "up"
    /\ listOp.index = 2
    /\ Len(pdfs) = Cardinality(PdfIds)
    /\ pdfs # listOp.from

\* C34: the decision step after the last save has a cancel outcome: for a user
\* who wants neither download nor upload no composition or merge runs, and the
\* staged blobs and the collected annotations are cleared.
C34_CancelClearsTheSession ==
    wish = "cancel" =>
        /\ ~MergingAnnotated
        /\ pdfBlobs = <<>>
        /\ pdfAnnotations = EmptyMap

\* The highlight and crop annotations of a sequence of annotations.
Rectangles(anns) ==
    {anns[j] : j \in {k \in DOMAIN anns : anns[k].type \in {"highlight", "crop"}}}

\* The rectangle r spans exactly the points a and b.
Spans(r, a, b) ==
    /\ {r.x, r.x + r.width} = {a.x, b.x}
    /\ {r.y, r.y + r.height} = {a.y, b.y}

\* C35: every highlight and crop annotation of every snapshot of the history,
\* and of the live annotations, has width >= 0 and height >= 0; the one a
\* pointer release commits has the minimum x and the minimum y of the
\* gesture's start and end points as its (x, y) and spans these two points, in
\* whatever direction the pointer was dragged.
C35_RectanglesAreNormalized ==
    /\ \A i \in DOMAIN history : \A r \in Rectangles(history[i]) :
          r.width >= 0 /\ r.height >= 0
    /\ \A r \in Rectangles(annotations) : r.width >= 0 /\ r.height >= 0
    /\ (/\ lastOp = "mouseUp"
        /\ gesture.tool \in {"highlighter", "crop"}
        /\ gesture.isDrawing \/ gesture.tool = "crop"
        /\ gesture.cropStart # None
        /\ gesture.cropEnd # None)
          => /\ Len(annotations) = Len(pre.annotations) + 1
             /\ LET r == annotations[Len(annotations)]
                    a == gesture.cropStart[1]
                    b == gesture.cropEnd[1]
                IN  /\ r.type = IF gesture.tool = "crop" THEN "crop" ELSE "highlight"
                    /\ r.width >= 0
                    /\ r.height >= 0
                    /\ r.x <= a.x /\ r.x <= b.x
                    /\ r.y <= a.y /\ r.y <= b.y
                    /\ Spans(r, a, b)

\* C35 happens: a highlight dragged from the lower right to the upper left
\* was committed with its upper left corner as (x, y).
C35_HighlightDraggedBackwards ==
    /\ lastOp = "mouseUp"
    /\ gesture.tool = "highlighter"
    /\ gesture.isDrawing
    /\ gesture.cropStart = Some(Pt(1, 1))
    /\ gesture.cropEnd = Some(Pt(0, 0))
    /\ Len(annotations) > 0
    /\ LET r == annotations[Len(annotations)]
       IN  r.type = "highlight" /\ r.x = 0 /\ r.y = 0 /\ r.width = 1 /\ r.height = 1

\* C36: once the page counts are loaded, after every togglePage, selectAll,
\* selectNone, selectFirst, selectOdd and selectEven every index selected for a
\* source is at least 0 and less than the page count of that source, also for
\* a source of 0 pages.
C36_SelectedIndicesInRange ==
    (SelectorReady /\ Len(pageCounts) = Len(pdfBlobs)) =>
        \A e \in DOMAIN selections : \A k \in DOMAIN selections[e].pages :
            /\ 0 <= selections[e].pages[k]
            /\ selections[e].pages[k] < PageCountAt(selections[e].pdfIndex)

\* The annotation list saved for the 0-based source i was not empty.
SavedNonEmpty(i) ==
    i \in DOMAIN attempt.annotations /\ attempt.annotations[i] # <<>>

\* C37: the list finishMergeWithAnnotations hands to mergePDFs has the length
\* and the order of the staged sources: position i holds the annotated copy of
\* source i when a non-empty annotation list was saved for it, and the staged
\* blob of source i as it was otherwise.
C37_HandedListFollowsStagedSources ==
    attempt.handed # None =>
        LET list == attempt.handed[1] IN
        /\ Len(list) = Len(attempt.blobs)
        /\ \A i \in DOMAIN list :
              LET source == SourceBlob(attempt.blobs[i]) IN
              /\ Len(list[i].pages) = Len(source.pages)
              /\ \A k \in DOMAIN list[i].pages : list[i].pages[k].src = source.id
              /\ IF SavedNonEmpty(i - 1)
                 THEN LET copy == ApplyAnnotationsToPDF(source,
                                                        attempt.annotations[i - 1])
                      IN  copy.ok /\ list[i] = copy.blob[1] /\ list[i] # source
                 ELSE list[i] = source

\* C37 happens: a merge was handed the annotated copy of the first document
\* and the second document as it was staged.
C37_FirstAnnotatedSecondUnchanged ==
    /\ attempt.handed # None
    /\ Len(attempt.handed[1]) = 2
    /\ SavedNonEmpty(0)
    /\ ~SavedNonEmpty(1)
    /\ attempt.handed[1][1] # SourceBlob(attempt.blobs[1])
    /\ attempt.handed[1][2] = SourceBlob(attempt.blobs[2])

====
